---- MODULE Spec2Model ----
(***************************************************************************)
(* Verification model of the Smart Passenger Counter core:                *)
(*   - PassengerCounter   (src/core/passenger_counter.py)                  *)
(*   - MultiDoorCounter   (src/core/directional_counter_multi.py)          *)
(*   - InputReader        (src/core/input_reader.py)                       *)
(*   - the multi-door server wiring (src/server/app.py)                    *)
(* Coordinates: a centroid (x1+x2)/2 is kept doubled (x1+x2), and compared *)
(* against doubled line coordinates, so that all arithmetic stays integer  *)
(* and exact.                                                              *)
(***************************************************************************)
EXTENDS Integers, Sequences, FiniteSets, TLC

None == "None"

\* ------------------------------------------------------------------------
\* Bounds of the model
\* ------------------------------------------------------------------------
MaxBoxes == 2          \* boxes passed to one PassengerCounter.update call
MaxFrames == 4         \* frames the capture device delivers in a run
MaxBuffer == 2         \* largest buffer_size configured
MaxTicks == 3          \* MultiDoorCounter.update calls in a run with two tracks
MaxNmsBoxes == 3       \* rows of the array passed to YOLOPipeline.nms

\* all sequences over S of length at most n
SeqUpTo(S, n) == UNION { [1..k -> S] : k \in 0..n }

\* ========================================================================
\* PassengerCounter (src/core/passenger_counter.py)
\* ========================================================================
VARIABLES
    lines,            \* self.lines
    track_positions,  \* self.track_positions : dict track_id -> doubled centroid
    track_states,     \* self.track_states    : dict track_id -> direction of the crossing
    in_count,         \* self.in_count
    out_count,        \* self.out_count
    total_crossed,    \* self.total_crossed
    pc_ret,           \* value returned by the last update call: <<new_in, new_out>>
    contrib,          \* history: increments of in_count + out_count made on behalf
                      \* of each track id since construction or the last reset
    suppressed        \* history: track ids for which a crossing was detected while
                      \* the id was already in total_crossed (since the last reset)

pcVars == <<lines, track_positions, track_states, in_count, out_count,
            total_crossed, pc_ret, contrib, suppressed>>

\* history, kept by the runs that follow a counter across its resets: the
\* track ids that were in total_crossed when some earlier reset() was called
VARIABLES counted_before

\* the argument lines of the constructor (NoLines for lines=None)
VARIABLES lines_arg

\* lines=None in the constructor
DefaultLines ==
    << [name |-> "entry", coords |-> <<0, 360, 1280, 360>>, direction |-> "vertical"] >>

\* a horizontal line crossed vertically and a vertical line crossed horizontally
TwoLines ==
    << [name |-> "entry", coords |-> <<0, 360, 1280, 360>>, direction |-> "vertical"],
       [name |-> "side",  coords |-> <<640, 0, 640, 720>>,  direction |-> "horizontal"] >>

\* two parallel horizontal lines
ParallelLines ==
    << [name |-> "entry", coords |-> <<0, 360, 1280, 360>>, direction |-> "vertical"],
       [name |-> "inner", coords |-> <<0, 400, 1280, 400>>, direction |-> "vertical"] >>

LineConfigs == { DefaultLines, TwoLines, ParallelLines }

\* lines=None: the caller passed no geometry
NoLines == << >>

\* the values of the argument lines: None (main.py, api.py) or a list of lines
LineArgs == { NoLines, TwoLines, ParallelLines }

\* lines 17-27: the geometry the counter will use
LinesOrDefault(arg) == IF arg = NoLines THEN DefaultLines ELSE arg

\* bounding boxes [x1, y1, x2, y2] handed to update
PcBoxes == { <<600, 300, 640, 380>>,     \* centroid (620, 340)
             <<620, 320, 660, 400>>,     \* centroid (640, 360): on the lines y=360, x=640
             <<640, 380, 680, 460>> }    \* centroid (660, 420)

\* no box reported for a track in a frame
NoBox == << >>

\* track ids: box indices when update is called without track_ids
PcTrackIds == 0 .. (MaxBoxes - 1)

\* lines 58-59, doubled
Center2(box) == << box[1] + box[3], box[2] + box[4] >>

\* the state threaded through the loops of update
PcStateCumulative == [pos |-> track_positions, states |-> track_states,
            tin |-> in_count, tout |-> out_count, crossed |-> total_crossed,
            new_in |-> in_count, new_out |-> out_count, contrib |-> contrib,
            suppressed |-> suppressed]
PcState == [pos |-> track_positions, states |-> track_states,
            tin |-> in_count, tout |-> out_count, crossed |-> total_crossed,
            new_in |-> 0, new_out |-> 0, contrib |-> contrib,
            suppressed |-> suppressed]

\* lines 79-83 / 99-103: count an IN crossing unless the track already crossed
CountInNoLatch(st, tid) ==
    [st EXCEPT !.tin = @ + 1, !.new_in = @ + 1,
               !.crossed = @ \cup {tid},
               !.states = [t \in (DOMAIN @) \cup {tid} |->
                              IF t = tid THEN "in" ELSE @[t]],
               !.contrib = [@ EXCEPT ![tid] = @ + 1]]

CountIn(st, tid) ==
    IF tid \notin st.crossed
    THEN [st EXCEPT !.tin = @ + 1, !.new_in = @ + 1,
                    !.crossed = @ \cup {tid},
                    !.states = [t \in (DOMAIN @) \cup {tid} |->
                                   IF t = tid THEN "in" ELSE @[t]],
                    !.contrib = [@ EXCEPT ![tid] = @ + 1]]
    ELSE [st EXCEPT !.suppressed = @ \cup {tid}]

\* lines 87-91 / 107-111
CountOutUnlatched(st, tid) ==
    [st EXCEPT !.tout = @ + 1, !.new_out = @ + 1,
               !.contrib = [@ EXCEPT ![tid] = @ + 1]]
CountOut(st, tid) ==
    IF tid \notin st.crossed
    THEN [st EXCEPT !.tout = @ + 1, !.new_out = @ + 1,
                    !.crossed = @ \cup {tid},
                    !.states = [t \in (DOMAIN @) \cup {tid} |->
                                   IF t = tid THEN "out" ELSE @[t]],
                    !.contrib = [@ EXCEPT ![tid] = @ + 1]]
    ELSE [st EXCEPT !.suppressed = @ \cup {tid}]

\* lines 69-111: the crossing test of one line against the stored position
CheckLineFromOrigin(st, tid, c2, line) ==
    LET prev == IF tid \in DOMAIN st.pos THEN st.pos[tid] ELSE <<0, 0>>
    IN  IF line.direction = "vertical"
        THEN IF prev[2] < 2 * line.coords[2] /\ c2[2] >= 2 * line.coords[2]
             THEN CountIn(st, tid) ELSE st
        ELSE IF prev[1] < 2 * line.coords[1] /\ c2[1] >= 2 * line.coords[1]
             THEN CountIn(st, tid) ELSE st
CheckLine(st, tid, c2, line) ==
    IF tid \notin DOMAIN st.pos
    THEN st
    ELSE LET prev_x2 == st.pos[tid][1]
             prev_y2 == st.pos[tid][2]
             line_y2 == 2 * line.coords[2]
             line_x2 == 2 * line.coords[1]
         IN  IF line.direction = "vertical"
             THEN IF prev_y2 < line_y2 /\ c2[2] >= line_y2 THEN CountIn(st, tid)
                  ELSE IF prev_y2 > line_y2 /\ c2[2] <= line_y2 THEN CountOut(st, tid)
                  ELSE st
             ELSE IF line.direction = "horizontal"
             THEN IF prev_x2 < line_x2 /\ c2[1] >= line_x2 THEN CountIn(st, tid)
                  ELSE IF prev_x2 > line_x2 /\ c2[1] <= line_x2 THEN CountOut(st, tid)
                  ELSE st
             ELSE st

\* line 114: self.track_positions[track_id] = (center_x, center_y)
StorePosEvicting(st, tid, c2) ==
    [st EXCEPT !.pos = [t \in {tid} |-> c2]]
StorePos(st, tid, c2) ==
    [st EXCEPT !.pos = [t \in (DOMAIN @) \cup {tid} |-> IF t = tid THEN c2 ELSE @[t]]]

\* lines 62-114: the loop over the lines, for one (track_id, box)
RECURSIVE LineLoop(_, _, _, _, _)
LineLoop(st, tid, c2, ls, i) ==
    IF i > Len(ls) THEN st
    ELSE LineLoop(StorePos(CheckLine(st, tid, c2, ls[i]), tid, c2), tid, c2, ls, i + 1)

\* lines 56-114: the loop over zip(track_ids, boxes)
RECURSIVE BoxLoop(_, _, _, _, _)
BoxLoop(st, ids, boxes, ls, k) ==
    IF k > Len(ids) \/ k > Len(boxes) THEN st
    ELSE BoxLoop(LineLoop(st, ids[k], Center2(boxes[k]), ls, 1), ids, boxes, ls, k + 1)

\* lines 53-54: track_ids = list(range(len(boxes)))
RangeIds(boxes) == [k \in 1..Len(boxes) |-> k - 1]

\* PassengerCounter.update(boxes, track_ids)
PcUpdateWith(boxes, ids) ==
    \E st \in { BoxLoop(PcState, ids, boxes, lines, 1) } :
        /\ track_positions' = st.pos
        /\ track_states' = st.states
        /\ in_count' = st.tin
        /\ out_count' = st.tout
        /\ total_crossed' = st.crossed
        /\ contrib' = st.contrib
        /\ suppressed' = st.suppressed
        /\ pc_ret' = <<st.new_in, st.new_out>>
        /\ UNCHANGED lines

\* update(boxes): the call made by main.py and api.py
PcUpdate ==
    \E boxes \in SeqUpTo(PcBoxes, MaxBoxes) : PcUpdateWith(boxes, RangeIds(boxes))

\* update(boxes, track_ids) with the ids of an external tracker: the tracks
\* reported in a frame have distinct ids; f maps each reported id to its box
PcUpdateTracked ==
    \E f \in [PcTrackIds -> PcBoxes \cup {NoBox}] :
        LET all == [k \in 1..MaxBoxes |-> k - 1]
            ids == SelectSeq(all, LAMBDA t : f[t] # NoBox)
        IN  /\ Len(ids) > 0
            /\ PcUpdateWith([k \in 1..Len(ids) |-> f[ids[k]]], ids)

\* lines 118-124: get_counts()
get_counts ==
    [in |-> in_count, out |-> out_count, total |-> in_count - out_count]

\* PassengerCounter.reset()
PcResetKeepsCrossed ==
    /\ in_count' = 0
    /\ out_count' = 0
    /\ track_positions' = << >>
    /\ track_states' = << >>
    /\ contrib' = [t \in PcTrackIds |-> 0]
    /\ suppressed' = {}
    /\ UNCHANGED <<lines, pc_ret, total_crossed>>
PcReset ==
    /\ in_count' = 0
    /\ out_count' = 0
    /\ total_crossed' = {}
    /\ track_positions' = << >>
    /\ track_states' = << >>
    /\ contrib' = [t \in PcTrackIds |-> 0]
    /\ suppressed' = {}
    /\ UNCHANGED <<lines, pc_ret>>

\* the ids latched at the time of a reset() call are remembered
NoteReset == counted_before' = counted_before \cup total_crossed

\* PassengerCounter.__init__(lines)
PcInit ==
    /\ lines_arg \in LineArgs
    /\ lines = LinesOrDefault(lines_arg)
    /\ track_positions = << >>
    /\ track_states = << >>
    /\ in_count = 0
    /\ out_count = 0
    /\ total_crossed = {}
    /\ pc_ret = <<0, 0>>
    /\ contrib = [t \in PcTrackIds |-> 0]
    /\ suppressed = {}
    /\ counted_before = {}

\* ========================================================================
\* MultiDoorCounter (src/core/directional_counter_multi.py)
\* ========================================================================
VARIABLES
    md_track_states,  \* self.track_states : dict track_id -> door -> LineCrossState
    counts,           \* self.counts       : door -> {enter, exit, occupancy}
    enter_fired,      \* history: times the enter event fired, per track id and door
    exit_fired,       \* history: times the exit event fired, per track id and door
    relatched,        \* history: (track id, door) pairs whose pos -> neg transition
                      \* was seen again while the matching latch was already set
    ticks             \* number of update calls made (bounds the two-track runs)

mdVars == <<md_track_states, counts, enter_fired, exit_fired, relatched, ticks>>

\* deque(maxlen=7)
HISTORY_MAXLEN == 7

\* doors_config: door1 as written by config_generator.py, door2 with vertical lines
Doors ==
    [door1 |-> [line_A |-> <<200, 300, 800, 300>>, line_B |-> <<200, 500, 800, 500>>],
     door2 |-> [line_A |-> <<400, 0, 400, 720>>,   line_B |-> <<600, 0, 600, 720>>]]

\* iteration order of self.doors
DoorOrder == << "door1", "door2" >>
DoorNames == { DoorOrder[i] : i \in 1..Len(DoorOrder) }

MdTrackIds == {1, 2}

\* obj.bbox of the tracked objects
MdBoxes == { <<680, 260, 720, 340>>,     \* centroid (700, 300): on line A of door1
             <<480, 360, 520, 440>>,     \* centroid (500, 400)
             <<280, 560, 320, 640>> }    \* centroid (300, 600)

\* LineCrossState.__init__
NewLineCrossStateSeen ==
    [side_A_history |-> << >>, side_B_history |-> << >>, last_side |-> "A-pos-B-pos",
     has_counted_entry |-> FALSE, has_counted_exit |-> FALSE]
NewLineCrossState ==
    [side_A_history |-> << >>, side_B_history |-> << >>, last_side |-> None,
     has_counted_entry |-> FALSE, has_counted_exit |-> FALSE]

\* point_side, on the doubled centroid c2: twice the value of the code
point_side(c2, ln) ==
    (c2[1] - 2 * ln[1]) * (ln[4] - ln[2]) - (c2[2] - 2 * ln[2]) * (ln[3] - ln[1])

\* deque.append with maxlen: the oldest sample is evicted
DequeAppend(h, v) ==
    IF Len(h) >= HISTORY_MAXLEN THEN Append(Tail(h), v) ELSE Append(h, v)

\* lines 100-105: "pos" iff the fraction of samples >= 0 exceeds one half
NonNegStrict(h) == Cardinality({ i \in 1..Len(h) : h[i] > 0 })
NonNeg(h) == Cardinality({ i \in 1..Len(h) : h[i] >= 0 })
Logical(h) == IF 2 * NonNeg(h) > Len(h) THEN "pos" ELSE "neg"

\* line 107: f"A-{logical_A}-B-{logical_B}"
SideLabel(a, b) ==
    IF a = "pos" THEN (IF b = "pos" THEN "A-pos-B-pos" ELSE "A-pos-B-neg")
                 ELSE (IF b = "pos" THEN "A-neg-B-pos" ELSE "A-neg-B-neg")

\* the substring tests of lines 120 and 127
HasAposAlways(l) == TRUE
HasApos(l) == l \in {"A-pos-B-pos", "A-pos-B-neg"}
HasAneg(l) == l \in {"A-neg-B-pos", "A-neg-B-neg"}
HasBpos(l) == l \in {"A-pos-B-pos", "A-neg-B-pos"}
HasBneg(l) == l \in {"A-pos-B-neg", "A-neg-B-neg"}

\* line 120 / line 127: the guards of the two events
EnterGuardNoLatch(prev, now, state) == HasApos(prev) /\ HasAneg(now)
EnterGuard(prev, now, state) ==
    HasApos(prev) /\ HasAneg(now) /\ ~state.has_counted_entry
ExitGuardElif(prev, now, state) ==
    /\ HasBpos(prev) /\ HasBneg(now) /\ ~state.has_counted_exit
    /\ ~(HasApos(prev) /\ HasAneg(now) /\ ~state.has_counted_entry)
ExitGuard(prev, now, state) ==
    HasBpos(prev) /\ HasBneg(now) /\ ~state.has_counted_exit

\* lines 121-123
FireEnterTwice(c) == [c EXCEPT !.enter = @ + 2, !.occupancy = @ + 2]
FireEnter(c) == [c EXCEPT !.enter = @ + 1, !.occupancy = @ + 1]
\* lines 128-130
FireExitNoOccupancy(c) == [c EXCEPT !.exit = @ + 1]
FireExit(c) == [c EXCEPT !.exit = @ + 1, !.occupancy = @ - 1]

\* lines 96-97: the state with the two new samples appended
Sampled(state, c2, door) ==
    [state EXCEPT
       !.side_A_history = DequeAppend(@, point_side(c2, Doors[door].line_A)),
       !.side_B_history = DequeAppend(@, point_side(c2, Doors[door].line_B))]

\* lines 100-107
CurrentSide(state) ==
    SideLabel(Logical(state.side_A_history), Logical(state.side_B_history))

\* the state threaded through the loops of update
MdState == [ts |-> md_track_states, counts |-> counts,
            ef |-> enter_fired, xf |-> exit_fired, rl |-> relatched]

\* lines 86-133: one door for one tracked object
DoorStep(st, tid, c2, door) ==
    LET s1   == Sampled(st.ts[tid][door], c2, door)
        now  == CurrentSide(s1)
        prev == s1.last_side
    IN  IF prev = None
        THEN [st EXCEPT !.ts[tid][door] = [s1 EXCEPT !.last_side = now]]
        ELSE LET en == EnterGuard(prev, now, s1)
                 ex == ExitGuard(prev, now, s1)
                 c1 == IF en THEN FireEnter(st.counts[door]) ELSE st.counts[door]
                 c2b == IF ex THEN FireExit(c1) ELSE c1
                 again == \/ HasApos(prev) /\ HasAneg(now) /\ s1.has_counted_entry
                          \/ HasBpos(prev) /\ HasBneg(now) /\ s1.has_counted_exit
             IN  [st EXCEPT
                    !.ts[tid][door] =
                        [s1 EXCEPT !.last_side = now,
                                   !.has_counted_entry = @ \/ en,
                                   !.has_counted_exit = @ \/ ex],
                    !.counts[door] = c2b,
                    !.ef[tid][door] = IF en THEN @ + 1 ELSE @,
                    !.xf[tid][door] = IF ex THEN @ + 1 ELSE @,
                    !.rl = IF again THEN @ \cup {<<tid, door>>} ELSE @]

\* lines 85-133: the loop over the doors
RECURSIVE DoorLoop(_, _, _, _)
DoorLoop(st, tid, c2, i) ==
    IF i > Len(DoorOrder) THEN st
    ELSE DoorLoop(DoorStep(st, tid, c2, DoorOrder[i]), tid, c2, i + 1)

\* lines 75-79: create the per-door state of a track seen for the first time
EnsureTrackAll(st, tid) ==
    [st EXCEPT !.ts = [t \in (DOMAIN @) \cup MdTrackIds |->
                          IF t \in DOMAIN @ THEN @[t]
                          ELSE [d \in DoorNames |-> NewLineCrossState]]]
EnsureTrack(st, tid) ==
    IF tid \in DOMAIN st.ts THEN st
    ELSE [st EXCEPT !.ts = [t \in (DOMAIN @) \cup {tid} |->
                              IF t = tid THEN [d \in DoorNames |-> NewLineCrossState]
                              ELSE @[t]]]

\* lines 73-133: the loop over tracked_objects (a function track id -> bbox)
RECURSIVE TrackLoop(_, _, _)
TrackLoop(st, objs, todo) ==
    IF todo = {} THEN st
    ELSE LET tid == CHOOSE t \in todo : \A u \in todo : t <= u
         IN  TrackLoop(DoorLoop(EnsureTrack(st, tid), tid, Center2(objs[tid]), 1),
                       objs, todo \ {tid})

\* MultiDoorCounter.update(tracked_objects)
MdUpdateWith(objs) ==
    \E st \in { TrackLoop(MdState, objs, DOMAIN objs) } :
        /\ md_track_states' = st.ts
        /\ counts' = st.counts
        /\ enter_fired' = st.ef
        /\ exit_fired' = st.xf
        /\ relatched' = st.rl

\* the tracked objects of one frame: any subset of ids, each with a bbox
TrackedObjects(ids) == UNION { [S -> MdBoxes] : S \in SUBSET ids }

\* update on the output of the tracker, any of the track ids present or absent
MdUpdate ==
    /\ ticks < MaxTicks
    /\ \E objs \in TrackedObjects(MdTrackIds) : MdUpdateWith(objs)
    /\ ticks' = ticks + 1

\* update in a run in which the tracker only ever reports track 1
MdUpdateSolo ==
    /\ \E objs \in TrackedObjects({1}) : MdUpdateWith(objs)
    /\ UNCHANGED ticks

\* a track walking through door1 from above line A to below line B, seen
\* HISTORY_MAXLEN times in each of four stretches: above line A (centroid
\* y <= 300), twice between the lines (300 < y <= 500), below line B (y > 500).
\* For door2 the same boxes go from between its lines (400 <= x < 600) to
\* the negative side of both (x < 400) and stay there.
WalkBoxes(k) ==
    IF k < HISTORY_MAXLEN
    THEN { <<480, 260, 520, 340>>,       \* centroid (500, 300): on line A
           <<430, 160, 470, 240>> }      \* centroid (450, 200)
    ELSE IF k < 3 * HISTORY_MAXLEN
    THEN { <<280, 360, 320, 440>>,       \* centroid (300, 400)
           <<330, 460, 370, 540>> }      \* centroid (350, 500): on line B
    ELSE { <<280, 560, 320, 640>>,       \* centroid (300, 600)
           <<180, 610, 220, 690>> }      \* centroid (200, 650)

\* update called once per frame on the walking track (id 1)
MdUpdateWalk ==
    /\ ticks < 4 * HISTORY_MAXLEN
    /\ \E b \in WalkBoxes(ticks) : MdUpdateWith([t \in {1} |-> b])
    /\ ticks' = ticks + 1

\* reset_counters of app.py (lines 105-111) run as a whole: the three counts
\* of every door are set to 0; track_states is not touched
MdResetCounters ==
    /\ counts' = [d \in DoorNames |-> [enter |-> 0, exit |-> 0, occupancy |-> 0]]
    /\ UNCHANGED <<md_track_states, enter_fired, exit_fired, relatched, ticks>>

\* MultiDoorCounter.__init__(doors_config)
MdInit ==
    /\ md_track_states = << >>
    /\ counts = [d \in DoorNames |-> [enter |-> 0, exit |-> 0, occupancy |-> 0]]
    /\ enter_fired = [t \in MdTrackIds |-> [d \in DoorNames |-> 0]]
    /\ exit_fired = [t \in MdTrackIds |-> [d \in DoorNames |-> 0]]
    /\ relatched = {}
    /\ ticks = 0

\* ========================================================================
\* InputReader (src/core/input_reader.py)
\* Three threads: the reader thread (_reader), the consumer calling
\* get_frame, and a caller of stop().  Every access to a shared object
\* (stopped, cap, frame_queue) is a step of its own; queue.Queue makes each
\* single queue operation atomic.  Frames are numbered in capture order.
\* ========================================================================
VARIABLES
    source,           \* kind of self.source: "file" / "rtsp" (strings), "webcam" (int)
    reconnect,        \* self.reconnect
    buffer_size,      \* self.buffer_size
    cap_opened,       \* self.cap.isOpened()
    frame_queue,      \* self.frame_queue
    stopped,          \* self.stopped
    dropped_frames,   \* self.dropped_frames
    rpc,              \* reader thread: position in _reader
    rframe,           \* reader thread: the frame read and not yet enqueued (0: none)
    frames_read,      \* history: frames read successfully from the device
    full_taken,       \* history: the except queue.Full branch was taken
    gpc,              \* consumer: position in get_frame
    last_ret,         \* history: value returned by the last get_frame (0: None)
    n_delivered,      \* history: frames returned by get_frame
    last_frame,       \* history: the last frame returned by get_frame (0: none yet)
    drained,          \* history: a get_frame returned None with stopped set and
                      \* the queue empty
    spc               \* caller of stop(): position in stop

irVars == <<source, reconnect, buffer_size, cap_opened, frame_queue, stopped,
            dropped_frames, rpc, rframe, frames_read, full_taken, gpc, last_ret,
            n_delivered, last_frame, drained, spc>>

\* configurations: main.py (a file path, reconnect on), api.py (webcam 0,
\* reconnect on), an RTSP stream with and without reconnect
InputConfigs ==
    { [source |-> "file",   reconnect |-> TRUE],
      [source |-> "webcam", reconnect |-> TRUE],
      [source |-> "rtsp",   reconnect |-> TRUE],
      [source |-> "rtsp",   reconnect |-> FALSE] }

\* isinstance(self.source, str)
IsStr(src) == src \in {"file", "rtsp"}

\* self.reconnect and isinstance(self.source, str)
WillReconnect == reconnect /\ IsStr(source)

\* queue.Queue operations
QueueFullOffByOne(q, B) == Len(q) > B
QueueFull(q, B) == Len(q) >= B
QueueEmpty(q) == Len(q) = 0
DropNewest(q) == SubSeq(q, 1, Len(q) - 1)
GetNowait(q) == Tail(q)
QueueGet(q) == Head(q)
QueueRest(q) == Tail(q)
QueuePutFront(q, f) == <<f>> \o q
QueuePut(q, f) == Append(q, f)

\* line 100: self.dropped_frames += 1
ForgetDrop(n) == n
CountDrop(n) == n + 1

\* line 64: while not self.stopped
ReaderLoop ==
    /\ rpc = "loop"
    /\ rpc' = IF stopped THEN "exit" ELSE "isopen"
    /\ UNCHANGED <<source, reconnect, buffer_size, cap_opened, frame_queue, stopped,
                   dropped_frames, rframe, frames_read, full_taken, gpc, last_ret,
                   n_delivered, last_frame, drained, spc>>

\* lines 65-72: if not self.cap.isOpened()
ReaderIsOpened ==
    /\ rpc = "isopen"
    /\ rpc' = IF cap_opened THEN "read"
              ELSE IF WillReconnect THEN "init" ELSE "exit"
    /\ UNCHANGED <<source, reconnect, buffer_size, cap_opened, frame_queue, stopped,
                   dropped_frames, rframe, frames_read, full_taken, gpc, last_ret,
                   n_delivered, last_frame, drained, spc>>

\* line 74: ret, frame = self.cap.read(); the device delivers at most MaxFrames
\* frames; a read may fail at any time and fails on a released capture
ReaderRead ==
    /\ rpc = "read"
    /\ \/ /\ cap_opened /\ frames_read < MaxFrames
          /\ frames_read' = frames_read + 1
          /\ rframe' = frames_read + 1
          /\ rpc' = "full"
       \/ /\ rpc' = "failed"
          /\ UNCHANGED <<frames_read, rframe>>
    /\ UNCHANGED <<source, reconnect, buffer_size, cap_opened, frame_queue, stopped,
                   dropped_frames, full_taken, gpc, last_ret,
                   n_delivered, last_frame, drained, spc>>

\* lines 76-85: if not ret
ReaderFailed ==
    /\ rpc = "failed"
    /\ IF WillReconnect
       THEN /\ cap_opened' = FALSE            \* self.cap.release()
            /\ rpc' = "init"                  \* time.sleep(1); self._init_capture()
            /\ UNCHANGED stopped
       ELSE /\ stopped' = TRUE
            /\ rpc' = "exit"
            /\ UNCHANGED cap_opened
    /\ UNCHANGED <<source, reconnect, buffer_size, frame_queue,
                   dropped_frames, rframe, frames_read, full_taken, gpc, last_ret,
                   n_delivered, last_frame, drained, spc>>

\* lines 42-58 called from the reader (lines 69, 81): the capture opens, or
\* _init_capture raises ValueError and the thread dies
ReaderInitCapture ==
    /\ rpc = "init"
    /\ \/ cap_opened' = TRUE /\ rpc' = "loop"
       \/ cap_opened' = FALSE /\ rpc' = "raised"
    /\ UNCHANGED <<source, reconnect, buffer_size, frame_queue, stopped,
                   dropped_frames, rframe, frames_read, full_taken, gpc, last_ret,
                   n_delivered, last_frame, drained, spc>>

\* line 97: if self.frame_queue.full()
ReaderFullCheck ==
    /\ rpc = "full"
    /\ rpc' = IF QueueFull(frame_queue, buffer_size) THEN "drop" ELSE "put"
    /\ UNCHANGED <<source, reconnect, buffer_size, cap_opened, frame_queue, stopped,
                   dropped_frames, rframe, frames_read, full_taken, gpc, last_ret,
                   n_delivered, last_frame, drained, spc>>

\* lines 98-102: get_nowait and the drop counter (written by this thread only)
ReaderDrop ==
    /\ rpc = "drop"
    /\ IF QueueEmpty(frame_queue)
       THEN UNCHANGED <<frame_queue, dropped_frames>>      \* except queue.Empty
       ELSE /\ frame_queue' = GetNowait(frame_queue)
            /\ dropped_frames' = CountDrop(dropped_frames)
    /\ rpc' = "put"
    /\ UNCHANGED <<source, reconnect, buffer_size, cap_opened, stopped,
                   rframe, frames_read, full_taken, gpc, last_ret,
                   n_delivered, last_frame, drained, spc>>

\* lines 104-107: put(frame, timeout=1); on a full queue the put waits and,
\* if no slot is freed, raises queue.Full
ReaderPut ==
    /\ rpc = "put"
    /\ IF Len(frame_queue) < buffer_size
       THEN /\ frame_queue' = QueuePut(frame_queue, rframe)
            /\ UNCHANGED <<dropped_frames, full_taken>>
       ELSE /\ dropped_frames' = dropped_frames + 1
            /\ full_taken' = TRUE
            /\ UNCHANGED frame_queue
    /\ rframe' = 0
    /\ rpc' = "loop"
    /\ UNCHANGED <<source, reconnect, buffer_size, cap_opened, stopped,
                   frames_read, gpc, last_ret,
                   n_delivered, last_frame, drained, spc>>

\* get_frame returns v (0 for None)
Return(v) ==
    /\ gpc' = "idle"
    /\ last_ret' = v
    /\ n_delivered' = IF v = 0 THEN n_delivered ELSE n_delivered + 1
    /\ last_frame' = IF v = 0 THEN last_frame ELSE v
    /\ drained' = (drained \/ (v = 0 /\ stopped /\ QueueEmpty(frame_queue)))

\* line 116, first operand: self.stopped
GetFrameCall ==
    /\ gpc = "idle"
    /\ gpc' = IF stopped THEN "empty" ELSE "get"
    /\ UNCHANGED <<source, reconnect, buffer_size, cap_opened, frame_queue, stopped,
                   dropped_frames, rpc, rframe, frames_read, full_taken, last_ret,
                   n_delivered, last_frame, drained, spc>>

\* lines 116-117, second operand: self.frame_queue.empty()
GetFrameEmpty ==
    /\ gpc = "empty"
    /\ IF QueueEmpty(frame_queue)
       THEN Return(0)
       ELSE /\ gpc' = "get"
            /\ UNCHANGED <<last_ret, n_delivered, last_frame, drained>>
    /\ UNCHANGED <<source, reconnect, buffer_size, cap_opened, frame_queue, stopped,
                   dropped_frames, rpc, rframe, frames_read, full_taken, spc>>

\* lines 119-122: get(timeout=1): the oldest frame, or None after the timeout
GetFrameGet ==
    /\ gpc = "get"
    /\ IF QueueEmpty(frame_queue)
       THEN Return(0) /\ UNCHANGED frame_queue
       ELSE Return(QueueGet(frame_queue)) /\ frame_queue' = QueueRest(frame_queue)
    /\ UNCHANGED <<source, reconnect, buffer_size, cap_opened, stopped,
                   dropped_frames, rpc, rframe, frames_read, full_taken, spc>>

\* line 138: self.stopped = True
StopSet ==
    /\ spc = "idle"
    /\ stopped' = TRUE
    /\ spc' = "join"
    /\ UNCHANGED <<source, reconnect, buffer_size, cap_opened, frame_queue,
                   dropped_frames, rpc, rframe, frames_read, full_taken, gpc, last_ret,
                   n_delivered, last_frame, drained>>

\* the reader thread has returned from _reader or died on an exception
ThreadEnded == rpc \in {"exit", "raised"}

\* the calls of _reader that can last longer than the 2 seconds of the join:
\* cap.read() on a stalled device (line 74) and time.sleep(1) followed by
\* the opening of the capture (lines 68-69, 80-81)
ReaderBlocked == rpc \in {"read", "init"}

\* lines 139-140: self.thread.join(timeout=2): the thread ended or 2 s passed
StopJoin ==
    /\ spc = "join"
    /\ ThreadEnded \/ ReaderBlocked
    /\ spc' = "release"
    /\ UNCHANGED <<source, reconnect, buffer_size, cap_opened, frame_queue, stopped,
                   dropped_frames, rpc, rframe, frames_read, full_taken, gpc, last_ret,
                   n_delivered, last_frame, drained>>

\* lines 141-142: self.cap.release()
StopRelease ==
    /\ spc = "release"
    /\ cap_opened' = FALSE
    /\ spc' = "done"
    /\ UNCHANGED <<source, reconnect, buffer_size, frame_queue, stopped,
                   dropped_frames, rpc, rframe, frames_read, full_taken, gpc, last_ret,
                   n_delivered, last_frame, drained>>

\* InputReader.__init__(config): the capture opened and the thread started
IrInit ==
    /\ \E c \in InputConfigs : source = c.source /\ reconnect = c.reconnect
    /\ buffer_size \in 1..MaxBuffer
    /\ cap_opened = TRUE
    /\ frame_queue = << >>
    /\ stopped = FALSE
    /\ dropped_frames = 0
    /\ rpc = "loop"
    /\ rframe = 0
    /\ frames_read = 0
    /\ full_taken = FALSE
    /\ gpc = "idle"
    /\ last_ret = 0
    /\ n_delivered = 0
    /\ last_frame = 0
    /\ drained = FALSE
    /\ spc = "idle"

\* InputReader before its threads are considered (specifications of the counters)
IrIdle ==
    /\ source = "webcam" /\ reconnect = TRUE /\ buffer_size = 1
    /\ cap_opened = TRUE
    /\ frame_queue = << >>
    /\ stopped = FALSE
    /\ dropped_frames = 0
    /\ rpc = "loop"
    /\ rframe = 0
    /\ frames_read = 0
    /\ full_taken = FALSE
    /\ gpc = "idle"
    /\ last_ret = 0
    /\ n_delivered = 0
    /\ last_frame = 0
    /\ drained = FALSE
    /\ spc = "idle"

\* ========================================================================
\* The multi-door server (src/server/app.py): the processing loop thread
\* runs counter.update statement by statement while request handler threads
\* (flask-socketio, async_mode='threading') serve /api/stats and /api/reset
\* on the same counter.counts dictionary.  No lock guards the counters.
\* The per-track LineCrossState objects are touched by the loop thread only.
\* ========================================================================
VARIABLES
    app_pc,           \* processing_loop: position in the tick
    app_objs,         \* processing_loop: tracked_objects of the tick
    app_cur,          \* processing_loop: <<track id, door index>> being evaluated
    app_now,          \* processing_loop: the local `now` of update
    rst_pc,           \* reset_counters: <<door index, statement>>, <<0, 0>> when idle
    observed          \* the counts last observed (a /api/stats reply or a broadcast)

appVars == <<app_pc, app_objs, app_cur, app_now, rst_pc, observed>>

\* the track ids the tracker reports to the server's loop
AppTrackIds == {1}

AppDoor == DoorOrder[app_cur[2]]
AppState == md_track_states[app_cur[1]][AppDoor]

\* line 133 and the loop headers of lines 73 and 85: store last_side, then
\* move to the next door, the next tracked object, or leave update
StoreAndAdvance(ts) ==
    LET tid  == app_cur[1]
        done == [ts EXCEPT ![tid][AppDoor].last_side = app_now']
        rest == { t \in DOMAIN app_objs : t > tid }
    IN  /\ md_track_states' = done
        /\ IF app_cur[2] < Len(DoorOrder)
           THEN app_cur' = <<tid, app_cur[2] + 1>> /\ app_pc' = "eval"
           ELSE IF rest # {}
           THEN /\ app_cur' = <<CHOOSE t \in rest : \A u \in rest : t <= u, 1>>
                /\ app_pc' = "eval"
           ELSE app_cur' = <<0, 0>> /\ app_pc' = "broadcast"

\* lines 41-47: a frame arrives, the tracker reports tracked_objects and
\* counter.update is entered
AppFetch ==
    /\ app_pc = "fetch"
    /\ ticks < MaxTicks
    /\ ticks' = ticks + 1
    /\ \E objs \in TrackedObjects(AppTrackIds) :
          /\ app_objs' = objs
          /\ IF DOMAIN objs = {}
             THEN app_cur' = <<0, 0>> /\ app_pc' = "broadcast"
             ELSE /\ app_cur' = <<CHOOSE t \in DOMAIN objs :
                                     \A u \in DOMAIN objs : t <= u, 1>>
                  /\ app_pc' = "eval"
    /\ UNCHANGED <<md_track_states, counts, enter_fired, exit_fired, relatched,
                   app_now, rst_pc, observed>>

\* line 46: detector.update(frame) raises (yolo.infer or the SORT update,
\* detection_tracker.py lines 83 and 98, have no handler); processing_loop
\* has no handler either, so the exception ends the loop thread
AppDetectorRaises ==
    /\ app_pc = "fetch"
    /\ app_pc' = "dead"
    /\ UNCHANGED <<mdVars, app_objs, app_cur, app_now, rst_pc, observed>>

\* lines 75-120: state creation, sampling, smoothing, first-sighting test and
\* the enter test (all on data of the loop thread)
AppEval ==
    /\ app_pc = "eval"
    /\ LET tid  == app_cur[1]
           ts0  == EnsureTrack(MdState, tid).ts
           s1   == Sampled(ts0[tid][AppDoor], Center2(app_objs[tid]), AppDoor)
           now  == CurrentSide(s1)
           ts1  == [ts0 EXCEPT ![tid][AppDoor] = s1]
       IN  /\ app_now' = now
           /\ IF s1.last_side = None
              THEN StoreAndAdvance(ts1)
              ELSE IF EnterGuard(s1.last_side, now, s1)
              THEN /\ md_track_states' = ts1
                   /\ app_pc' = "enter_inc"
                   /\ UNCHANGED app_cur
              ELSE IF ExitGuard(s1.last_side, now, s1)
              THEN /\ md_track_states' = ts1
                   /\ app_pc' = "exit_inc"
                   /\ UNCHANGED app_cur
              ELSE StoreAndAdvance(ts1)
    /\ UNCHANGED <<counts, enter_fired, exit_fired, relatched, ticks,
                   app_objs, rst_pc, observed>>

\* line 121: self.counts[door_name]["enter"] += 1
AppEnterInc ==
    /\ app_pc = "enter_inc"
    /\ counts' = [counts EXCEPT ![AppDoor].enter = @ + 1]
    /\ app_pc' = "enter_occ"
    /\ UNCHANGED <<md_track_states, enter_fired, exit_fired, relatched, ticks,
                   app_objs, app_cur, app_now, rst_pc, observed>>

\* lines 122-127: occupancy += 1, the entry latch, then the exit test
AppEnterOcc ==
    /\ app_pc = "enter_occ"
    /\ counts' = [counts EXCEPT ![AppDoor].occupancy = @ + 1]
    /\ enter_fired' = [enter_fired EXCEPT ![app_cur[1]][AppDoor] = @ + 1]
    /\ app_now' = app_now
    /\ LET ts1 == [md_track_states EXCEPT
                      ![app_cur[1]][AppDoor].has_counted_entry = TRUE]
       IN  IF ExitGuard(AppState.last_side, app_now, AppState)
           THEN md_track_states' = ts1 /\ app_pc' = "exit_inc" /\ UNCHANGED app_cur
           ELSE StoreAndAdvance(ts1)
    /\ UNCHANGED <<exit_fired, relatched, ticks, app_objs, rst_pc, observed>>

\* line 128: self.counts[door_name]["exit"] += 1
AppExitInc ==
    /\ app_pc = "exit_inc"
    /\ counts' = [counts EXCEPT ![AppDoor].exit = @ + 1]
    /\ app_pc' = "exit_occ"
    /\ UNCHANGED <<md_track_states, enter_fired, exit_fired, relatched, ticks,
                   app_objs, app_cur, app_now, rst_pc, observed>>

\* lines 129-133: occupancy -= 1, the exit latch, last_side
AppExitOcc ==
    /\ app_pc = "exit_occ"
    /\ counts' = [counts EXCEPT ![AppDoor].occupancy = @ - 1]
    /\ exit_fired' = [exit_fired EXCEPT ![app_cur[1]][AppDoor] = @ + 1]
    /\ app_now' = app_now
    /\ StoreAndAdvance([md_track_states EXCEPT
                           ![app_cur[1]][AppDoor].has_counted_exit = TRUE])
    /\ UNCHANGED <<enter_fired, relatched, ticks, app_objs, rst_pc, observed>>

\* line 67: send_realtime_update(door_counts), door_counts being counter.counts
AppBroadcast ==
    /\ app_pc = "broadcast"
    /\ observed' = counts
    /\ app_pc' = "fetch"
    /\ UNCHANGED <<mdVars, app_objs, app_cur, app_now, rst_pc>>

\* lines 101-103: GET /api/stats
GetStats ==
    /\ observed' = counts
    /\ observed' # observed
    /\ UNCHANGED <<mdVars, app_pc, app_objs, app_cur, app_now, rst_pc>>

\* lines 105-107: POST /api/reset arrives
ResetStart ==
    /\ rst_pc = <<0, 0>>
    /\ rst_pc' = <<1, 1>>
    /\ UNCHANGED <<mdVars, app_pc, app_objs, app_cur, app_now, observed>>

\* lines 108-110: one assignment of reset_counters
ResetStep ==
    /\ rst_pc # <<0, 0>>
    /\ LET d == DoorOrder[rst_pc[1]]
       IN  counts' = [counts EXCEPT ![d] =
                         IF rst_pc[2] = 1 THEN [@ EXCEPT !.enter = 0]
                         ELSE IF rst_pc[2] = 2 THEN [@ EXCEPT !.exit = 0]
                         ELSE [@ EXCEPT !.occupancy = 0]]
    /\ rst_pc' = IF rst_pc[2] < 3 THEN <<rst_pc[1], rst_pc[2] + 1>>
                 ELSE IF rst_pc[1] < Len(DoorOrder) THEN <<rst_pc[1] + 1, 1>>
                 ELSE <<0, 0>>
    /\ UNCHANGED <<md_track_states, enter_fired, exit_fired, relatched, ticks,
                   app_pc, app_objs, app_cur, app_now, observed>>

\* module level of app.py: the counter constructed, the loop thread started
AppInit ==
    /\ app_pc = "fetch"
    /\ app_objs = << >>
    /\ app_cur = <<0, 0>>
    /\ app_now = None
    /\ rst_pc = <<0, 0>>
    /\ observed = [d \in DoorNames |-> [enter |-> 0, exit |-> 0, occupancy |-> 0]]

\* ========================================================================
\* YOLOPipeline.nms (src/core/yolo_pipeline.py)
\* A box is <<x1, y1, x2, y2, score>> with integer coordinates and the score
\* in tenths; a threshold is a fraction <<numerator, denominator>>.
\* ========================================================================
VARIABLES
    nms_boxes,        \* the argument boxes of the first call
    nms_thresh,       \* the argument thresh
    nms_keep,         \* the list keep of the first call (indices into nms_boxes)
    nms_out,          \* the value returned by nms(boxes, thresh)
    nms_out2,         \* the value returned by nms(nms(boxes, thresh), thresh)
    nms_pc            \* "idle", "once" after the first call, "twice" after the second

nmsVars == <<nms_boxes, nms_thresh, nms_keep, nms_out, nms_out2, nms_pc>>

\* rows of the array final_boxes built by post_process
NmsBoxes ==
    { <<0, 0, 2, 2, 9>>,
      <<1, 0, 3, 2, 8>>,       \* IoU 1/3 with the first
      <<0, 0, 2, 1, 8>>,       \* IoU 1/2 with the first, 1/5 with the second
      <<0, 0, 2, 2, 7>>,       \* the first box again with a lower score
      <<4, 4, 5, 5, 8>>,       \* apart from all the others
      <<1, 1, 1, 1, 9>> }      \* a box of area 0

\* values of nms_th: 0, 1/3, 0.45 (the default), 1/2
NmsThresholds == { <<0, 1>>, <<1, 3>>, <<9, 20>>, <<1, 2>> }

\* the 1e-6 of line 174, as 1 / EPS_DEN
EPS_DEN == 1000000

Maximum(a, b) == IF a >= b THEN a ELSE b
Minimum(a, b) == IF a <= b THEN a ELSE b

\* line 156: areas
NmsArea(b) == (b[3] - b[1]) * (b[4] - b[2])

\* lines 165-172: inter
NmsInterNoClamp(a, b) ==
    (Minimum(a[3], b[3]) - Maximum(a[1], b[1])) *
    (Minimum(a[4], b[4]) - Maximum(a[2], b[2]))
NmsInter(a, b) ==
    LET w == Maximum(0, Minimum(a[3], b[3]) - Maximum(a[1], b[1]))
        h == Maximum(0, Minimum(a[4], b[4]) - Maximum(a[2], b[2]))
    IN  w * h

\* lines 174-175: inter / (area_a + area_b - inter + 1e-6) <= thresh, with
\* both sides multiplied by the (positive) denominators
IouLeq(a, b, t) ==
    LET inter == NmsInter(a, b)
        union == NmsArea(a) + NmsArea(b) - inter
    IN  t[2] * inter * EPS_DEN <= t[1] * (union * EPS_DEN + 1)

\* line 176: order = order[idx + 1]: the entries after the first whose IoU
\* with box i is at most thresh, in their order
SurvivorsAll(boxes, i, rest, t) == rest
Survivors(boxes, i, rest, t) ==
    SelectSeq(rest, LAMBDA j : IouLeq(boxes[i], boxes[j], t))

\* lines 159-176: the while loop; returns keep
RECURSIVE NmsLoop(_, _, _, _)
NmsLoop(boxes, order, keep, t) ==
    IF Len(order) = 0 THEN keep
    ELSE NmsLoop(boxes, Survivors(boxes, order[1], Tail(order), t),
                 Append(keep, order[1]), t)

\* line 157: scores.argsort()[::-1]: the indices by non-increasing score.
\* argsort uses numpy's default sort kind, which is not stable: the order of
\* indices of equal score is whatever the build produces
DescendingOrders(boxes) ==
    { p \in [1..Len(boxes) -> 1..Len(boxes)] :
        /\ \A k, l \in 1..Len(boxes) : k # l => p[k] # p[l]
        /\ \A k, l \in 1..Len(boxes) : k < l => boxes[p[k]][5] >= boxes[p[l]][5] }

\* lines 147-148 and 159-176: keep, for one outcome of the sort
NmsKeep(boxes, order, t) ==
    IF Len(boxes) = 0 THEN << >> ELSE NmsLoop(boxes, order, << >>, t)

\* line 178: boxes[keep]
Gather(boxes, keep) == [k \in 1..Len(keep) |-> boxes[keep[k]]]

\* nms(boxes, thresh)
NmsCall ==
    /\ nms_pc = "idle"
    /\ \E order \in DescendingOrders(nms_boxes) :
          \E keep \in { NmsKeep(nms_boxes, order, nms_thresh) } :
              /\ nms_keep' = keep
              /\ nms_out' = Gather(nms_boxes, keep)
    /\ nms_pc' = "once"
    /\ UNCHANGED <<nms_boxes, nms_thresh, nms_out2>>

\* nms(out, thresh) on the value returned by the first call
NmsAgain ==
    /\ nms_pc = "once"
    /\ \E order \in DescendingOrders(nms_out) :
          nms_out2' = Gather(nms_out, NmsKeep(nms_out, order, nms_thresh))
    /\ nms_pc' = "twice"
    /\ UNCHANGED <<nms_boxes, nms_thresh, nms_keep, nms_out>>

\* the arguments of a call: any array of at most MaxNmsBoxes rows
NmsInit ==
    /\ nms_boxes \in SeqUpTo(NmsBoxes, MaxNmsBoxes)
    /\ nms_thresh \in NmsThresholds
    /\ nms_keep = << >>
    /\ nms_out = << >>
    /\ nms_out2 = << >>
    /\ nms_pc = "idle"

\* nms not called
NmsIdle ==
    /\ nms_boxes = << >>
    /\ nms_thresh = <<9, 20>>
    /\ nms_keep = << >>
    /\ nms_out = << >>
    /\ nms_out2 = << >>
    /\ nms_pc = "idle"

\* ========================================================================
\* YOLOPipeline.letterbox and the box decoding of post_process
\* (src/core/yolo_pipeline.py).  Frame sizes and boxes of the frame are in
\* whole pixels; coordinates of the model input and decoded coordinates are
\* kept in units of 1 / Resolution pixel, every arithmetic result being
\* rounded to the nearest unit.  scale = min(new_shape / h, new_shape / w)
\* is the fraction INPUT_SIZE / max(h, w).
\* ========================================================================
VARIABLES
    lb_shape,         \* image.shape[:2] = <<h, w>>
    lb_box,           \* a box of the original frame, <<x1, y1, x2, y2>> in pixels
    lb_params,        \* what letterbox returns: [den, pad_w, pad_h], scale = INPUT_SIZE / den
    lb_pred,          \* the row <<cx, cy, w, h>> of boxes for lb_box, in units
    lb_final,         \* <<x1, y1, x2, y2>> appended to final_boxes, in units
    lb_pc             \* "frame", "letterboxed", "predicted", "decoded"

lbVars == <<lb_shape, lb_box, lb_params, lb_pred, lb_final, lb_pc>>

\* input_size=640
INPUT_SIZE == 640

\* units per pixel of the fixed-point coordinates
Resolution == 256

\* frame sizes <<h, w>>: landscape, portrait, square, smaller and larger
\* than the model input, and one whose resized height is truncated
FrameShapes == { <<480, 640>>, <<720, 1280>>, <<1080, 1920>>, <<640, 640>>,
                 <<1280, 720>>, <<500, 375>>, <<100, 50>>, <<333, 1000>> }

\* positions along an axis of length n
AxisPoints(n) == { 0, 1, n \div 3, n \div 2, n - 1, n }

\* the boxes of a frame of shape <<h, w>>
FrameBoxes(shape) ==
    { <<x1, y1, x2, y2>> : x1 \in AxisPoints(shape[2]), y1 \in AxisPoints(shape[1]),
                           x2 \in AxisPoints(shape[2]), y2 \in AxisPoints(shape[1]) }

\* a / b rounded to the nearest integer, b > 0
Round(a, b) == (2 * a + b) \div (2 * b)

\* lines 60-61: scale and the size of the resized image; int() truncates
ScaleDen(shape) == Maximum(shape[1], shape[2])
Resized(n, den) == (n * INPUT_SIZE) \div den

\* lines 66-67
Pad(n, den) == (INPUT_SIZE - Resized(n, den)) \div 2

\* letterbox: the values returned with the canvas
LetterboxParams(shape) ==
    [den   |-> ScaleDen(shape),
     pad_w |-> Pad(shape[2], ScaleDen(shape)),
     pad_h |-> Pad(shape[1], ScaleDen(shape))]

\* coord * scale + pad: where a pixel coordinate of the frame lies on the canvas
ToInput(coord, pad, den) ==
    Round(coord * Resolution * INPUT_SIZE, den) + pad * Resolution

\* the row of preds for a box of the canvas: centre, width and height
ToCxCyWH(b) == << Round(b[1] + b[3], 2), Round(b[2] + b[4], 2), b[3] - b[1], b[4] - b[2] >>

\* lines 129-132: (c -/+ extent/2 - pad) / scale
FromInputNoPad(c, half, pad, den) == Round((c + half) * den, INPUT_SIZE)
FromInput(c, half, pad, den) ==
    Round((c + half - pad * Resolution) * den, INPUT_SIZE)

\* lines 126-134: one row of boxes decoded
DecodeRow(row, p) ==
    << FromInput(row[1], 0 - Round(row[3], 2), p.pad_w, p.den),
       FromInput(row[2], 0 - Round(row[4], 2), p.pad_h, p.den),
       FromInput(row[1], Round(row[3], 2), p.pad_w, p.den),
       FromInput(row[2], Round(row[4], 2), p.pad_h, p.den) >>

\* infer, line 76: letterbox(frame, self.input_size)
LbLetterbox ==
    /\ lb_pc = "frame"
    /\ lb_params' = LetterboxParams(lb_shape)
    /\ lb_pc' = "letterboxed"
    /\ UNCHANGED <<lb_shape, lb_box, lb_pred, lb_final>>

\* the box mapped onto the canvas and reported as a row of preds
LbPredict ==
    /\ lb_pc = "letterboxed"
    /\ lb_pred' = ToCxCyWH(<< ToInput(lb_box[1], lb_params.pad_w, lb_params.den),
                              ToInput(lb_box[2], lb_params.pad_h, lb_params.den),
                              ToInput(lb_box[3], lb_params.pad_w, lb_params.den),
                              ToInput(lb_box[4], lb_params.pad_h, lb_params.den) >>)
    /\ lb_pc' = "predicted"
    /\ UNCHANGED <<lb_shape, lb_box, lb_params, lb_final>>

\* post_process, lines 126-134
LbDecode ==
    /\ lb_pc = "predicted"
    /\ lb_final' = DecodeRow(lb_pred, lb_params)
    /\ lb_pc' = "decoded"
    /\ UNCHANGED <<lb_shape, lb_box, lb_params, lb_pred>>

\* any frame size and any box of the frame
LbInit ==
    /\ lb_shape \in FrameShapes
    /\ lb_box \in { b \in FrameBoxes(lb_shape) : b[1] < b[3] /\ b[2] < b[4] }
    /\ lb_params = [den |-> 1, pad_w |-> 0, pad_h |-> 0]
    /\ lb_pred = <<0, 0, 0, 0>>
    /\ lb_final = <<0, 0, 0, 0>>
    /\ lb_pc = "frame"

\* no frame processed
LbIdle ==
    /\ lb_shape = <<640, 640>>
    /\ lb_box = <<0, 0, 1, 1>>
    /\ lb_params = [den |-> 1, pad_w |-> 0, pad_h |-> 0]
    /\ lb_pred = <<0, 0, 0, 0>>
    /\ lb_final = <<0, 0, 0, 0>>
    /\ lb_pc = "frame"

\* ========================================================================
\* The lock of the published frame (src/server/app.py: lock, global_frame;
\* src/server/api.py: lock, output_frame).  Two threads: the processing loop
\* (processing_loop / capture_frames) and one stream generator
\* (generate_mjpeg / generate_stream).  Frames are numbered, 0 is None.
\* ========================================================================
VARIABLES
    server,           \* which module runs: "app" or "api"
    lock,             \* owner of the threading.Lock: "none", "loop", "stream"
    shared_frame,     \* global_frame / output_frame
    loop_pc,          \* position of the processing loop
    loop_frame,       \* the local frame of the processing loop
    stream_pc,        \* position of the stream generator
    streamed          \* the frame last yielded by the stream generator

lkVars == <<server, lock, shared_frame, loop_pc, loop_frame, stream_pc, streamed>>

\* leaving a `with lock:` block releases the lock
WithExitKeeps(owner) == owner
WithExit(owner) == "none"

\* app.py lines 41-44, api.py lines 97-107: a frame is taken from the reader,
\* or none is there and the loop sleeps and comes back
LoopGetFrame ==
    /\ loop_pc = "get"
    /\ loop_frame < MaxFrames
    /\ loop_frame' = loop_frame + 1
    /\ loop_pc' = "detect"
    /\ UNCHANGED <<server, lock, shared_frame, stream_pc, streamed>>

\* app.py line 46, api.py lines 110-119: detection and tracking; in api.py a
\* failure is caught and the tick goes on with no boxes
LoopDetect ==
    /\ loop_pc = "detect"
    /\ loop_pc' = "count"
    /\ UNCHANGED <<server, lock, shared_frame, loop_frame, stream_pc, streamed>>

\* app.py line 46 raising: processing_loop has no handler
LoopDetectRaises ==
    /\ loop_pc = "detect"
    /\ server = "app"
    /\ loop_pc' = "dead"
    /\ UNCHANGED <<server, lock, shared_frame, loop_frame, stream_pc, streamed>>

\* app.py line 47, api.py lines 122-127: the counting update
LoopCount ==
    /\ loop_pc = "count"
    /\ loop_pc' = "draw"
    /\ UNCHANGED <<server, lock, shared_frame, loop_frame, stream_pc, streamed>>

\* app.py lines 50-61, api.py lines 129-166: the annotations are drawn
LoopDraw ==
    /\ loop_pc = "draw"
    /\ loop_pc' = "acquire"
    /\ UNCHANGED <<server, lock, shared_frame, loop_frame, stream_pc, streamed>>

\* app.py line 63, api.py line 169: with lock (blocks while it is owned)
LoopAcquire ==
    /\ loop_pc = "acquire"
    /\ lock = "none"
    /\ lock' = "loop"
    /\ loop_pc' = "swap"
    /\ UNCHANGED <<server, shared_frame, loop_frame, stream_pc, streamed>>

\* app.py line 64: global_frame = frame.copy(); api.py line 170:
\* output_frame = annotated_frame
LoopSwap ==
    /\ loop_pc = "swap"
    /\ shared_frame' = loop_frame
    /\ loop_pc' = "release"
    /\ UNCHANGED <<server, lock, loop_frame, stream_pc, streamed>>

\* the end of the with block
LoopRelease ==
    /\ loop_pc = "release"
    /\ lock' = WithExit(lock)
    /\ loop_pc' = IF server = "app" THEN "emit" ELSE "get"
    /\ UNCHANGED <<server, shared_frame, loop_frame, stream_pc, streamed>>

\* app.py line 67: send_realtime_update(door_counts)
LoopEmit ==
    /\ loop_pc = "emit"
    /\ loop_pc' = "get"
    /\ UNCHANGED <<server, lock, shared_frame, loop_frame, stream_pc, streamed>>

\* app.py line 79, api.py line 183: with lock
StreamAcquire ==
    /\ stream_pc = "acquire"
    /\ lock = "none"
    /\ lock' = "stream"
    /\ stream_pc' = "check"
    /\ UNCHANGED <<server, shared_frame, loop_pc, loop_frame, streamed>>

\* app.py lines 80-81, api.py lines 184-186: the frame is None; app.py
\* leaves the block at once, api.py sleeps inside it first
StreamNone ==
    /\ stream_pc = "check"
    /\ shared_frame = 0
    /\ IF server = "api"
       THEN stream_pc' = "sleep" /\ UNCHANGED lock
       ELSE stream_pc' = "acquire" /\ lock' = WithExit(lock)
    /\ UNCHANGED <<server, shared_frame, loop_pc, loop_frame, streamed>>

\* api.py lines 185-186: time.sleep(0.01) is over, continue leaves the block
StreamSleepEnd ==
    /\ stream_pc = "sleep"
    /\ lock' = WithExit(lock)
    /\ stream_pc' = "acquire"
    /\ UNCHANGED <<server, shared_frame, loop_pc, loop_frame, streamed>>

\* app.py lines 82-83, api.py lines 187-188: the frame is encoded inside the
\* block, which is then left
StreamEncode ==
    /\ stream_pc = "check"
    /\ shared_frame # 0
    /\ streamed' = shared_frame
    /\ lock' = WithExit(lock)
    /\ stream_pc' = "yield"
    /\ UNCHANGED <<server, shared_frame, loop_pc, loop_frame>>

\* app.py lines 85-91, api.py lines 189-190: the part is yielded
StreamYield ==
    /\ stream_pc = "yield"
    /\ stream_pc' = "acquire"
    /\ UNCHANGED <<server, lock, shared_frame, loop_pc, loop_frame, streamed>>

\* either server started, one client connected to the stream
LkInit ==
    /\ server \in {"app", "api"}
    /\ lock = "none"
    /\ shared_frame = 0
    /\ loop_pc = "get"
    /\ loop_frame = 0
    /\ stream_pc = "acquire"
    /\ streamed = 0

\* the frame publication not driven
LkIdle ==
    /\ server = "app"
    /\ lock = "none"
    /\ shared_frame = 0
    /\ loop_pc = "get"
    /\ loop_frame = 0
    /\ stream_pc = "acquire"
    /\ streamed = 0

\* ========================================================================
\* The single-line server (src/server/api.py): capture_frames runs
\* counter.update and adds what it returns to analytics_data, while the
\* /api/reset handler runs on a request thread.  Both work on the global
\* counter and analytics_data without a lock.
\* ========================================================================
VARIABLES
    analytics_in,     \* analytics_data["IN"]
    analytics_out,    \* analytics_data["OUT"]
    api_pc,           \* capture_frames: position in the tick
    api_nboxes,       \* capture_frames: len(boxes) of the tick
    api_rst           \* reset: "idle", or "counter" between its two statements

apiVars == <<analytics_in, analytics_out, api_pc, api_nboxes, api_rst>>

\* lines 109-122: boxes of the frame (none when detection fails), counter.update(boxes)
ApiUpdate ==
    /\ api_pc = "update"
    /\ \E boxes \in SeqUpTo(PcBoxes, MaxBoxes) :
          /\ PcUpdateWith(boxes, RangeIds(boxes))
          /\ api_nboxes' = Len(boxes)
    /\ api_pc' = "add_in"
    /\ UNCHANGED <<analytics_in, analytics_out, api_rst>>

\* line 125: analytics_data["IN"] += in_count
ApiAddIn ==
    /\ api_pc = "add_in"
    /\ analytics_in' = analytics_in + pc_ret[1]
    /\ api_pc' = "add_out"
    /\ UNCHANGED <<pcVars, analytics_out, api_nboxes, api_rst>>

\* lines 126-127 and the rest of the tick: analytics_data["OUT"] += out_count
ApiAddOut ==
    /\ api_pc = "add_out"
    /\ analytics_out' = analytics_out + pc_ret[2]
    /\ api_pc' = "update"
    /\ UNCHANGED <<pcVars, analytics_in, api_nboxes, api_rst>>

\* reset, lines 209-210: analytics_data = defaultdict(int)
ApiResetAnalytics ==
    /\ api_rst = "idle"
    /\ analytics_in' = 0
    /\ analytics_out' = 0
    /\ api_rst' = "counter"
    /\ UNCHANGED <<pcVars, api_pc, api_nboxes>>

\* reset, lines 212-213: counter.reset()
ApiResetCounter ==
    /\ api_rst = "counter"
    /\ PcReset
    /\ api_rst' = "idle"
    /\ UNCHANGED <<analytics_in, analytics_out, api_pc, api_nboxes>>

\* app.py lines 46-47: tracked_objects of the tick handed to counter.update
AppTick ==
    /\ ticks < MaxTicks
    /\ \E objs \in TrackedObjects(MdTrackIds) :
          /\ app_objs' = objs
          /\ MdUpdateWith(objs)
    /\ ticks' = ticks + 1
    /\ UNCHANGED <<app_pc, app_cur, app_now, rst_pc, observed>>

\* module level of api.py: analytics_data empty, the capture thread started
ApiInit ==
    /\ analytics_in = 0
    /\ analytics_out = 0
    /\ api_pc = "update"
    /\ api_nboxes = 0
    /\ api_rst = "idle"

\* PassengerCounter() as constructed by main.py and api.py, not driven
PcIdle ==
    /\ lines_arg = NoLines
    /\ lines = LinesOrDefault(lines_arg)
    /\ track_positions = << >>
    /\ track_states = << >>
    /\ in_count = 0
    /\ out_count = 0
    /\ total_crossed = {}
    /\ pc_ret = <<0, 0>>
    /\ contrib = [t \in PcTrackIds |-> 0]
    /\ suppressed = {}
    /\ counted_before = {}

vars == <<pcVars, mdVars, irVars, appVars, counted_before, nmsVars, lines_arg,
         lbVars, lkVars, apiVars>>

\* ------------------------------------------------------------------------
\* Specifications
\* ------------------------------------------------------------------------
\* the single-line counter driven sequentially
InitPC == PcInit /\ MdInit /\ IrIdle /\ AppInit /\ NmsIdle /\ LbIdle /\ LkIdle /\ ApiInit

NextPC ==
    \/ PcUpdate /\ UNCHANGED <<nmsVars, lines_arg, lbVars, lkVars, mdVars, irVars, appVars, counted_before, apiVars>>
    \/ PcUpdateTracked /\ UNCHANGED <<nmsVars, lines_arg, lbVars, lkVars, mdVars, irVars, appVars, counted_before, apiVars>>
    \/ PcReset /\ UNCHANGED <<nmsVars, lines_arg, lbVars, lkVars, mdVars, irVars, appVars, counted_before, apiVars>>

SpecPC == InitPC /\ [][NextPC]_vars


\* the multi-door counter driven sequentially, two tracks, at most MaxTicks calls
NextDoor == MdUpdate /\ UNCHANGED <<pcVars, counted_before, nmsVars, lines_arg, lbVars, lkVars, irVars, appVars, apiVars>>

InitDoor == PcIdle /\ MdInit /\ IrIdle /\ AppInit /\ NmsIdle /\ LbIdle /\ LkIdle /\ ApiInit

SpecDoor == InitDoor /\ [][NextDoor]_vars

\* the single-line counter as driven by api.py: update(boxes) on every frame,
\* reset() on POST /api/reset
NextPCReset ==
    \/ PcUpdate /\ UNCHANGED <<nmsVars, lines_arg, lbVars, lkVars, mdVars, irVars, appVars, counted_before, apiVars>>
    \/ PcReset /\ NoteReset /\ UNCHANGED <<nmsVars, lines_arg, lbVars, lkVars, mdVars, irVars, appVars, apiVars>>

SpecPCReset == InitDoor /\ [][NextPCReset]_vars

\* the multi-door counter driven sequentially, one track, any number of calls
NextDoorSolo == MdUpdateSolo /\ UNCHANGED <<pcVars, counted_before, nmsVars, lines_arg, lbVars, lkVars, irVars, appVars, apiVars>>

SpecDoorSolo == InitDoor /\ [][NextDoorSolo]_vars

\* the multi-door counter following one track that walks through door1
NextDoorWalk == MdUpdateWalk /\ UNCHANGED <<pcVars, counted_before, nmsVars, lines_arg, lbVars, lkVars, irVars, appVars, apiVars>>

SpecDoorWalk == InitDoor /\ [][NextDoorWalk]_vars

\* the multi-door counter with one track, updates and resets in sequence
NextDoorReset ==
    \/ MdUpdateSolo /\ UNCHANGED <<pcVars, counted_before, nmsVars, lines_arg, lbVars, lkVars, irVars, appVars, apiVars>>
    \/ MdResetCounters /\ UNCHANGED <<pcVars, counted_before, nmsVars, lines_arg, lbVars, lkVars, irVars, appVars, apiVars>>

SpecDoorReset == InitDoor /\ [][NextDoorReset]_vars

\* the input reader: reader thread, consumer and a caller of stop() interleaved
InitReader == PcIdle /\ MdInit /\ IrInit /\ AppInit /\ NmsIdle /\ LbIdle /\ LkIdle /\ ApiInit

NextReader ==
    \/ ReaderLoop /\ UNCHANGED <<pcVars, counted_before, nmsVars, lines_arg, lbVars, lkVars, mdVars, appVars, apiVars>>
    \/ ReaderIsOpened /\ UNCHANGED <<pcVars, counted_before, nmsVars, lines_arg, lbVars, lkVars, mdVars, appVars, apiVars>>
    \/ ReaderRead /\ UNCHANGED <<pcVars, counted_before, nmsVars, lines_arg, lbVars, lkVars, mdVars, appVars, apiVars>>
    \/ ReaderFailed /\ UNCHANGED <<pcVars, counted_before, nmsVars, lines_arg, lbVars, lkVars, mdVars, appVars, apiVars>>
    \/ ReaderInitCapture /\ UNCHANGED <<pcVars, counted_before, nmsVars, lines_arg, lbVars, lkVars, mdVars, appVars, apiVars>>
    \/ ReaderFullCheck /\ UNCHANGED <<pcVars, counted_before, nmsVars, lines_arg, lbVars, lkVars, mdVars, appVars, apiVars>>
    \/ ReaderDrop /\ UNCHANGED <<pcVars, counted_before, nmsVars, lines_arg, lbVars, lkVars, mdVars, appVars, apiVars>>
    \/ ReaderPut /\ UNCHANGED <<pcVars, counted_before, nmsVars, lines_arg, lbVars, lkVars, mdVars, appVars, apiVars>>
    \/ GetFrameCall /\ UNCHANGED <<pcVars, counted_before, nmsVars, lines_arg, lbVars, lkVars, mdVars, appVars, apiVars>>
    \/ GetFrameEmpty /\ UNCHANGED <<pcVars, counted_before, nmsVars, lines_arg, lbVars, lkVars, mdVars, appVars, apiVars>>
    \/ GetFrameGet /\ UNCHANGED <<pcVars, counted_before, nmsVars, lines_arg, lbVars, lkVars, mdVars, appVars, apiVars>>
    \/ StopSet /\ UNCHANGED <<pcVars, counted_before, nmsVars, lines_arg, lbVars, lkVars, mdVars, appVars, apiVars>>
    \/ StopJoin /\ UNCHANGED <<pcVars, counted_before, nmsVars, lines_arg, lbVars, lkVars, mdVars, appVars, apiVars>>
    \/ StopRelease /\ UNCHANGED <<pcVars, counted_before, nmsVars, lines_arg, lbVars, lkVars, mdVars, appVars, apiVars>>

SpecReader == InitReader /\ [][NextReader]_vars

\* the multi-door server: processing loop, /api/stats and /api/reset interleaved
NextApp ==
    \/ AppFetch /\ UNCHANGED <<pcVars, counted_before, nmsVars, lines_arg, lbVars, lkVars, irVars, apiVars>>
    \/ AppDetectorRaises /\ UNCHANGED <<pcVars, counted_before, nmsVars, lines_arg, lbVars, lkVars, irVars, apiVars>>
    \/ AppEval /\ UNCHANGED <<pcVars, counted_before, nmsVars, lines_arg, lbVars, lkVars, irVars, apiVars>>
    \/ AppEnterInc /\ UNCHANGED <<pcVars, counted_before, nmsVars, lines_arg, lbVars, lkVars, irVars, apiVars>>
    \/ AppEnterOcc /\ UNCHANGED <<pcVars, counted_before, nmsVars, lines_arg, lbVars, lkVars, irVars, apiVars>>
    \/ AppExitInc /\ UNCHANGED <<pcVars, counted_before, nmsVars, lines_arg, lbVars, lkVars, irVars, apiVars>>
    \/ AppExitOcc /\ UNCHANGED <<pcVars, counted_before, nmsVars, lines_arg, lbVars, lkVars, irVars, apiVars>>
    \/ AppBroadcast /\ UNCHANGED <<pcVars, counted_before, nmsVars, lines_arg, lbVars, lkVars, irVars, apiVars>>
    \/ GetStats /\ UNCHANGED <<pcVars, counted_before, nmsVars, lines_arg, lbVars, lkVars, irVars, apiVars>>
    \/ ResetStart /\ UNCHANGED <<pcVars, counted_before, nmsVars, lines_arg, lbVars, lkVars, irVars, apiVars>>
    \/ ResetStep /\ UNCHANGED <<pcVars, counted_before, nmsVars, lines_arg, lbVars, lkVars, irVars, apiVars>>

SpecApp == InitDoor /\ [][NextApp]_vars

\* non-max suppression applied to an array of boxes and then to its own output
InitNms == PcIdle /\ MdInit /\ IrIdle /\ AppInit /\ NmsInit /\ LbIdle /\ LkIdle /\ ApiInit

NextNms ==
    \/ NmsCall /\ UNCHANGED <<pcVars, counted_before, lines_arg, lbVars, lkVars, mdVars, irVars, appVars, apiVars>>
    \/ NmsAgain /\ UNCHANGED <<pcVars, counted_before, lines_arg, lbVars, lkVars, mdVars, irVars, appVars, apiVars>>

SpecNms == InitNms /\ [][NextNms]_vars

\* a box of a frame letterboxed, reported by the model and decoded
InitLetterbox == PcIdle /\ MdInit /\ IrIdle /\ AppInit /\ NmsIdle /\ LbInit /\ LkIdle /\ ApiInit

NextLetterbox ==
    \/ LbLetterbox /\ UNCHANGED <<pcVars, counted_before, lines_arg, mdVars, irVars, appVars, nmsVars, lkVars, apiVars>>
    \/ LbPredict /\ UNCHANGED <<pcVars, counted_before, lines_arg, mdVars, irVars, appVars, nmsVars, lkVars, apiVars>>
    \/ LbDecode /\ UNCHANGED <<pcVars, counted_before, lines_arg, mdVars, irVars, appVars, nmsVars, lkVars, apiVars>>

SpecLetterbox == InitLetterbox /\ [][NextLetterbox]_vars

\* the processing loop and a stream generator sharing the published frame
InitLock == PcIdle /\ MdInit /\ IrIdle /\ AppInit /\ NmsIdle /\ LbIdle /\ LkInit /\ ApiInit

NextLock ==
    \/ LoopGetFrame /\ UNCHANGED <<pcVars, counted_before, lines_arg, mdVars, irVars, appVars, nmsVars, lbVars, apiVars>>
    \/ LoopDetect /\ UNCHANGED <<pcVars, counted_before, lines_arg, mdVars, irVars, appVars, nmsVars, lbVars, apiVars>>
    \/ LoopDetectRaises /\ UNCHANGED <<pcVars, counted_before, lines_arg, mdVars, irVars, appVars, nmsVars, lbVars, apiVars>>
    \/ LoopCount /\ UNCHANGED <<pcVars, counted_before, lines_arg, mdVars, irVars, appVars, nmsVars, lbVars, apiVars>>
    \/ LoopDraw /\ UNCHANGED <<pcVars, counted_before, lines_arg, mdVars, irVars, appVars, nmsVars, lbVars, apiVars>>
    \/ LoopAcquire /\ UNCHANGED <<pcVars, counted_before, lines_arg, mdVars, irVars, appVars, nmsVars, lbVars, apiVars>>
    \/ LoopSwap /\ UNCHANGED <<pcVars, counted_before, lines_arg, mdVars, irVars, appVars, nmsVars, lbVars, apiVars>>
    \/ LoopRelease /\ UNCHANGED <<pcVars, counted_before, lines_arg, mdVars, irVars, appVars, nmsVars, lbVars, apiVars>>
    \/ LoopEmit /\ UNCHANGED <<pcVars, counted_before, lines_arg, mdVars, irVars, appVars, nmsVars, lbVars, apiVars>>
    \/ StreamAcquire /\ UNCHANGED <<pcVars, counted_before, lines_arg, mdVars, irVars, appVars, nmsVars, lbVars, apiVars>>
    \/ StreamNone /\ UNCHANGED <<pcVars, counted_before, lines_arg, mdVars, irVars, appVars, nmsVars, lbVars, apiVars>>
    \/ StreamSleepEnd /\ UNCHANGED <<pcVars, counted_before, lines_arg, mdVars, irVars, appVars, nmsVars, lbVars, apiVars>>
    \/ StreamEncode /\ UNCHANGED <<pcVars, counted_before, lines_arg, mdVars, irVars, appVars, nmsVars, lbVars, apiVars>>
    \/ StreamYield /\ UNCHANGED <<pcVars, counted_before, lines_arg, mdVars, irVars, appVars, nmsVars, lbVars, apiVars>>

SpecLock == InitLock /\ [][NextLock]_vars

\* either server running its counter: api.py the PassengerCounter with
\* /api/reset interleaved, app.py the MultiDoorCounter with reset_counters
InitServers == PcIdle /\ MdInit /\ IrIdle /\ AppInit /\ NmsIdle /\ LbIdle /\ LkInit /\ ApiInit

NextServers ==
    \/ server = "api" /\ ApiUpdate /\ UNCHANGED <<counted_before, lines_arg, mdVars, irVars, appVars, nmsVars, lbVars, lkVars>>
    \/ server = "api" /\ ApiAddIn /\ UNCHANGED <<counted_before, lines_arg, mdVars, irVars, appVars, nmsVars, lbVars, lkVars>>
    \/ server = "api" /\ ApiAddOut /\ UNCHANGED <<counted_before, lines_arg, mdVars, irVars, appVars, nmsVars, lbVars, lkVars>>
    \/ server = "api" /\ ApiResetAnalytics /\ UNCHANGED <<counted_before, lines_arg, mdVars, irVars, appVars, nmsVars, lbVars, lkVars>>
    \/ server = "api" /\ ApiResetCounter /\ UNCHANGED <<counted_before, lines_arg, mdVars, irVars, appVars, nmsVars, lbVars, lkVars>>
    \/ server = "app" /\ AppTick /\ UNCHANGED <<pcVars, counted_before, lines_arg, irVars, nmsVars, lbVars, lkVars, apiVars>>
    \/ server = "app" /\ MdResetCounters /\ UNCHANGED <<pcVars, counted_before, lines_arg, irVars, appVars, nmsVars, lbVars, lkVars, apiVars>>

SpecServers == InitServers /\ [][NextServers]_vars

\* ------------------------------------------------------------------------
\* Claims about PassengerCounter
\* ------------------------------------------------------------------------
RECURSIVE SumOver(_, _)
SumOver(f, S) ==
    IF S = {} THEN 0
    ELSE LET t == CHOOSE x \in S : TRUE IN f[t] + SumOver(f, S \ {t})

\* C1: between resets every track id adds at most 1 to in_count + out_count,
\* and once an id is in total_crossed no update changes the counts on its
\* behalf; the per-track contributions account for all of in_count + out_count.
C1_AtMostOncePerTrack ==
    [][ \/ PcReset
        \/ /\ \A t \in PcTrackIds :
                 /\ contrib'[t] <= 1
                 /\ t \in total_crossed => contrib'[t] = contrib[t]
           /\ in_count' + out_count' = SumOver(contrib', PcTrackIds) ]_vars

\* a counted track was seen crossing a line again and was not counted again
C1_Witness ==
    \E t \in suppressed : t \in total_crossed /\ contrib[t] = 1

\* C15: reset() leaves in_count = out_count = 0 (get_counts total 0) and
\* empties track_positions, track_states and total_crossed; total_crossed only
\* ever holds the ids counted since the last reset, so an id counted before a
\* reset is counted again when it crosses after it.
C15_ResetClearsAll ==
    [][ /\ PcReset =>
              /\ in_count' = 0 /\ out_count' = 0 /\ in_count' - out_count' = 0
              /\ track_positions' = << >>
              /\ track_states' = << >>
              /\ total_crossed' = {}
        /\ total_crossed' = { t \in PcTrackIds : contrib'[t] >= 1 } ]_vars

\* a track id counted before a reset has been counted again after it
C15_Witness ==
    \E t \in counted_before : t \in total_crossed /\ contrib[t] = 1

\* C23: counting geometry is never silently defaulted: no update has run on
\* a counter constructed without lines.
C23_GeometryNeverDefaulted ==
    track_positions # << >> => lines_arg # NoLines

\* the track with stored doubled position p and doubled centroid c crosses line
\* ln between two consecutive updates
CrossesLine(ln, p, c) ==
    IF ln.direction = "vertical"
    THEN \/ p[2] < 2 * ln.coords[2] /\ c[2] >= 2 * ln.coords[2]
         \/ p[2] > 2 * ln.coords[2] /\ c[2] <= 2 * ln.coords[2]
    ELSE \/ p[1] < 2 * ln.coords[1] /\ c[1] >= 2 * ln.coords[1]
         \/ p[1] > 2 * ln.coords[1] /\ c[1] <= 2 * ln.coords[1]

\* C24: with two or more lines every line is tested against the centroid
\* stored by the previous update call: a track not counted before that
\* crosses any of the lines, also a later-listed one only, between two
\* consecutive updates is counted.
C24_EveryLineTested ==
    [][\A t \in (DOMAIN track_positions) \cap (DOMAIN track_positions') :
          (/\ t \notin total_crossed
           /\ track_positions'[t] # track_positions[t]
           /\ \E i \in 1..Len(lines) :
                 CrossesLine(lines[i], track_positions[t], track_positions'[t]))
          => t \in total_crossed']_vars

\* C26: an update in which a track id has no stored previous position stores
\* a position for it and changes neither the counts on its behalf nor
\* total_crossed, wherever the centroid lies.
C26_FirstSightingNotCounted ==
    [][\A t \in PcTrackIds :
          (t \notin DOMAIN track_positions /\ t \in DOMAIN track_positions')
          => /\ contrib'[t] = contrib[t]
             /\ t \notin total_crossed'
             /\ t \notin DOMAIN track_states']_vars

\* a track first seen below the line y = 360 and not counted
C26_Witness ==
    \E t \in DOMAIN track_positions :
        /\ track_positions[t][2] > 2 * lines[1].coords[2]
        /\ t \notin total_crossed
        /\ in_count + out_count = 0

\* C28: update returns the increase of in_count and of out_count during the
\* call, and get_counts reports total = in - out.
C28_ReturnsDeltas ==
    [][/\ PcReset \/ pc_ret' = <<in_count' - in_count, out_count' - out_count>>
       /\ get_counts'.total = get_counts'["in"] - get_counts'.out
       /\ get_counts'["in"] = in_count' /\ get_counts'.out = out_count']_vars

\* a call that returned (1, 0) when the cumulative in_count became 2
C28_Witness ==
    pc_ret = <<1, 0>> /\ in_count = 2

\* ------------------------------------------------------------------------
\* Claims about MultiDoorCounter
\* ------------------------------------------------------------------------
\* C2: for every track id and every door the enter event fires at most once
\* and the exit event fires at most once, whatever the sequence of updates
\* (the track present or absent); every increment of a door's enter / exit
\* counter is one of these events.
C2_EventsAtMostOnce ==
    /\ \A t \in MdTrackIds : \A d \in DoorNames :
          enter_fired[t][d] <= 1 /\ exit_fired[t][d] <= 1
    /\ \A d \in DoorNames :
          /\ counts[d].enter = SumOver([t \in MdTrackIds |-> enter_fired[t][d]], MdTrackIds)
          /\ counts[d].exit = SumOver([t \in MdTrackIds |-> exit_fired[t][d]], MdTrackIds)

\* track 1 made the A pos -> neg transition at door1 a second time, with the
\* latch set, and its enter event still fired once
C2_Witness ==
    /\ <<1, "door1">> \in relatched
    /\ enter_fired[1]["door1"] = 1
    /\ md_track_states[1]["door1"].has_counted_entry
    /\ Len(md_track_states[1]["door1"].side_A_history) = HISTORY_MAXLEN

\* C3: after every update call, occupancy = enter - exit for every door.
C3_OccupancyConsistent ==
    \A d \in DoorNames : counts[d].occupancy = counts[d].enter - counts[d].exit

\* both tracks entered door1 and one of them exited it
C3_Witness ==
    /\ counts["door1"].enter = 2
    /\ counts["door1"].exit = 1
    /\ counts["door1"].occupancy = 1

\* C4: in the multi-door server every observation of the counts (a
\* /api/stats reply or the dict broadcast by the loop) has
\* occupancy = enter - exit for every door, whatever the interleaving of the
\* reset handler with counter.update.
C4_ObservedConsistent ==
    \A d \in DoorNames :
        observed[d].occupancy = observed[d].enter - observed[d].exit

\* ------------------------------------------------------------------------
\* Claims about InputReader
\* ------------------------------------------------------------------------
\* C5: when the reader discards a frame of a full queue it discards the
\* oldest buffered frame and keeps the frame just read; after each reader
\* iteration that read a frame, that frame is the newest element of the queue.
C5_DropOldestKeepNewest ==
    [][ /\ (rpc = "drop" /\ rpc' = "put" /\ frame_queue' # frame_queue) =>
             /\ frame_queue' = Tail(frame_queue)
             /\ \A i \in 1..Len(frame_queue') : frame_queue[1] < frame_queue'[i]
             /\ rframe' = rframe /\ rframe # 0
             /\ frame_queue[1] # rframe
        /\ (rpc = "put" /\ rpc' = "loop") =>
             /\ Len(frame_queue') >= 1
             /\ frame_queue'[Len(frame_queue')] = rframe
             /\ \A i \in 1..(Len(frame_queue') - 1) : frame_queue'[i] < rframe ]_vars

\* the reader found the queue of capacity 2 full, dropped frame 1 and enqueued
\* the frame it had just read
C5_Witness ==
    /\ buffer_size = 2 /\ rpc = "loop" /\ dropped_frames = 1 /\ n_delivered = 0
    /\ frame_queue = <<2, 3>>

\* C6: at every reader-iteration boundary
\* frames_read = delivered + buffered + dropped_frames.
C6_DropsAccounted ==
    rpc \in {"loop", "exit", "raised"} =>
        frames_read = n_delivered + Len(frame_queue) + dropped_frames

\* a boundary at which frames were delivered, buffered and dropped
C6_Witness ==
    /\ rpc = "loop" /\ dropped_frames >= 1 /\ n_delivered >= 1
    /\ Len(frame_queue) >= 1

\* C7: the reader's put always finds a free slot after the full-check / drop
\* step: the queue.Full branch is never taken.
C7_PutNeverFull ==
    /\ ~full_taken
    /\ rpc = "put" => Len(frame_queue) < buffer_size

\* the consumer never called get_frame and the reader, having dropped twice,
\* is about to enqueue into the slot it freed
C7_Witness ==
    /\ rpc = "put" /\ gpc = "idle" /\ n_delivered = 0 /\ ~drained
    /\ dropped_frames >= 2
    /\ Len(frame_queue) = buffer_size - 1

\* C8: successive get_frame calls return frames in strictly increasing
\* capture order.
C8_DeliveredInOrder ==
    [][ n_delivered' > n_delivered =>
           /\ last_frame' > last_frame
           /\ last_frame' = last_ret'
           /\ last_frame' <= frames_read ]_vars

\* two frames were delivered in order with a dropped frame between them
C8_Witness ==
    /\ n_delivered = 2 /\ dropped_frames >= 1 /\ last_frame = 3

\* C11: when the source is a video file and a read fails (end of file), the
\* failure is terminal whatever the reconnect flag: the reader thread leaves
\* its loop with stopped set and does not go on to reopen the file.
C11_FileFailureTerminal ==
    [][(source = "file" /\ rpc = "failed" /\ rpc' # "failed")
         => (stopped' /\ rpc' = "exit")]_vars

\* C12: with reconnect enabled on a network stream the reader keeps retrying:
\* as long as stop() has not been called the reader thread is alive, also
\* after a reopen attempt that failed.
C12_ReaderKeepsRetrying ==
    (source = "rtsp" /\ reconnect /\ ~stopped) => ~ThreadEnded

\* C13: once stop() has returned, the reader thread starts no further
\* device read, opens no capture, and the capture is not open.
C13_StopIsFinal ==
    [][spc = "done" =>
         (/\ ~cap_opened
          /\ ~(rpc # "read" /\ rpc' = "read")
          /\ ~(rpc = "init" /\ rpc' # "init"))]_vars

\* C16: the multi-door reset yields enter = exit = occupancy = 0 for every
\* door and clears the entered / exited latch of every track at every door, so
\* that a track that fired an event before the reset can fire it again.
C16_ResetClearsLatches ==
    [][MdResetCounters =>
         /\ \A d \in DoorNames :
                counts'[d].enter = 0 /\ counts'[d].exit = 0 /\ counts'[d].occupancy = 0
         /\ \A t \in DOMAIN md_track_states' : \A d \in DoorNames :
                /\ ~md_track_states'[t][d].has_counted_entry
                /\ ~md_track_states'[t][d].has_counted_exit]_vars

\* C17: a new track whose line-A samples are 7 non-negative then 7 negative
\* values, line B unchanged, gives exactly one enter over those 14 updates
\* and occupancy 1 (door1 with line B non-negative, door2 with line B
\* negative); 7 non-negative then 7 negative line-B samples, line A unchanged,
\* then give exactly one exit and occupancy 0 (door1).
C17_WalkThroughDoor ==
    /\ \A d \in DoorNames :
          /\ counts[d].enter <= 1 /\ counts[d].exit <= 1
          /\ ticks = 2 * HISTORY_MAXLEN =>
                counts[d] = [enter |-> 1, exit |-> 0, occupancy |-> 1]
          /\ ticks <= 3 * HISTORY_MAXLEN => counts[d].exit = 0
    /\ ticks = 4 * HISTORY_MAXLEN =>
          /\ counts["door1"] = [enter |-> 1, exit |-> 1, occupancy |-> 0]
          /\ counts["door2"] = [enter |-> 1, exit |-> 0, occupancy |-> 1]

\* the walk is complete: the track fired enter and then exit at door1
C17_Witness ==
    /\ ticks = 4 * HISTORY_MAXLEN
    /\ enter_fired[1]["door1"] = 1
    /\ exit_fired[1]["door1"] = 1

\* C14: a detector or tracker call that raises during a tick does not end
\* the processing loop of the multi-door server: the loop thread stays alive
\* and goes on to the next frame.
C14_LoopSurvivesDetectorFailure == app_pc # "dead"

\* C9: once stopped is true and a get_frame call has returned None with the
\* buffer empty, every later get_frame call returns None.
C9_NonePermanent ==
    [][ (drained /\ gpc # "idle" /\ gpc' = "idle") => last_ret' = 0 ]_vars

\* C10: whenever the buffer is non-empty get_frame returns the most recently
\* captured frame that has not yet been returned.
C10_ReturnsNewest ==
    [][ (gpc = "get" /\ gpc' = "idle" /\ frame_queue # << >>) =>
           last_ret' = frame_queue[Len(frame_queue)] ]_vars

\* ------------------------------------------------------------------------
\* Claims about YOLOPipeline.nms
\* ------------------------------------------------------------------------
\* the IoU of two boxes, intersection area over union area, exceeds t
IouAbove(a, b, t) ==
    LET w == IF Minimum(a[3], b[3]) > Maximum(a[1], b[1])
             THEN Minimum(a[3], b[3]) - Maximum(a[1], b[1]) ELSE 0
        h == IF Minimum(a[4], b[4]) > Maximum(a[2], b[2])
             THEN Minimum(a[4], b[4]) - Maximum(a[2], b[2]) ELSE 0
        union == NmsArea(a) + NmsArea(b) - w * h
    IN  t[2] * (w * h) > t[1] * union

\* C18: no two boxes of the output of nms have IoU greater than the
\* threshold; the output is a sub-collection of the input (rows of the input
\* at distinct indices) in order of non-increasing confidence.
C18_OutputSeparatedAndSorted ==
    nms_pc # "idle" =>
        /\ \A k, l \in 1..Len(nms_out) :
              k < l => /\ ~IouAbove(nms_out[k], nms_out[l], nms_thresh)
                       /\ nms_out[k][5] >= nms_out[l][5]
        /\ Len(nms_keep) = Len(nms_out)
        /\ \A k \in 1..Len(nms_keep) :
              /\ nms_keep[k] \in 1..Len(nms_boxes)
              /\ nms_out[k] = nms_boxes[nms_keep[k]]
        /\ \A k, l \in 1..Len(nms_keep) : k # l => nms_keep[k] # nms_keep[l]

\* a call that removed a box and returned at least two
C18_Witness ==
    nms_pc = "once" /\ Len(nms_out) >= 2 /\ Len(nms_out) < Len(nms_boxes)

\* C19: of two boxes of differing confidence only the higher-confidence one is
\* returned if their IoU is above the threshold, and both are returned if it is
\* at or below the threshold; in general every removed box has IoU above the
\* threshold with a returned box of higher or equal confidence.
C19_RemovedOnlyByBetterOverlap ==
    nms_pc # "idle" =>
        /\ (Len(nms_boxes) = 2 /\ nms_boxes[1][5] # nms_boxes[2][5]) =>
              LET hi == IF nms_boxes[1][5] > nms_boxes[2][5] THEN nms_boxes[1]
                        ELSE nms_boxes[2]
                  lo == IF nms_boxes[1][5] > nms_boxes[2][5] THEN nms_boxes[2]
                        ELSE nms_boxes[1]
              IN  IF IouAbove(hi, lo, nms_thresh)
                  THEN nms_out = <<hi>>
                  ELSE nms_out = <<hi, lo>>
        /\ \A j \in 1..Len(nms_boxes) :
              (\A k \in 1..Len(nms_keep) : nms_keep[k] # j) =>
                  \E k \in 1..Len(nms_keep) :
                      /\ nms_boxes[nms_keep[k]][5] >= nms_boxes[j][5]
                      /\ IouAbove(nms_boxes[nms_keep[k]], nms_boxes[j], nms_thresh)

\* two boxes of differing confidence whose IoU equals the threshold: both returned
C19_Witness ==
    /\ nms_pc = "once"
    /\ Len(nms_boxes) = 2 /\ nms_boxes[1][5] # nms_boxes[2][5]
    /\ NmsInter(nms_boxes[1], nms_boxes[2]) > 0
    /\ ~IouAbove(nms_boxes[1], nms_boxes[2], nms_thresh)
    /\ IouAbove(nms_boxes[1], nms_boxes[2],
                <<nms_thresh[1] * 100 - 1, nms_thresh[2] * 100>>)
    /\ Len(nms_out) = 2

\* C20: nms is idempotent: nms(nms(boxes, t), t) equals nms(boxes, t) as a
\* sequence, also when several boxes have equal confidence.
C20_NmsIdempotent ==
    nms_pc = "twice" => nms_out2 = nms_out


\* ------------------------------------------------------------------------
\* Further claims about MultiDoorCounter
\* ------------------------------------------------------------------------
\* C25: smoothing rejects single-frame jitter at any age of the track: when
\* every sample of line A seen so far is on the non-negative side and one
\* sample of the negative side arrives, the smoothed side of line A stays
\* "pos" and no enter event fires.
C25_JitterRejected ==
    [][\A d \in DoorNames :
          (/\ 1 \in DOMAIN md_track_states
           /\ 1 \in DOMAIN md_track_states'
           /\ md_track_states'[1][d] # md_track_states[1][d]
           /\ LET h == md_track_states[1][d].side_A_history
                  g == md_track_states'[1][d].side_A_history
              IN  /\ Len(h) >= 1
                  /\ \A i \in 1..Len(h) : h[i] >= 0
                  /\ g[Len(g)] < 0)
          => /\ Logical(md_track_states'[1][d].side_A_history) = "pos"
             /\ enter_fired'[1][d] = enter_fired[1][d]]_vars

\* C27: the update in which a track is observed for the first time stores
\* the label of its one sample as last_side at every door and sets no latch
\* and fires no event for that track; when it is the only track known the
\* counts do not change.
C27_FirstObservationFiresNothing ==
    [][\A t \in MdTrackIds :
          (t \notin DOMAIN md_track_states /\ t \in DOMAIN md_track_states')
          => /\ \A d \in DoorNames :
                   LET s == md_track_states'[t][d]
                   IN  /\ Len(s.side_A_history) = 1
                       /\ Len(s.side_B_history) = 1
                       /\ s.last_side = CurrentSide(s)
                       /\ ~s.has_counted_entry
                       /\ ~s.has_counted_exit
                       /\ enter_fired'[t][d] = enter_fired[t][d]
                       /\ exit_fired'[t][d] = exit_fired[t][d]
             /\ DOMAIN md_track_states' = {t} => counts' = counts]_vars

\* a track observed once, on the negative side of both lines of door1, with
\* nothing counted
C27_Witness ==
    \E t \in DOMAIN md_track_states :
        /\ Len(md_track_states[t].door1.side_A_history) = 1
        /\ md_track_states[t].door1.last_side = "A-neg-B-neg"
        /\ \A d \in DoorNames : counts[d].enter = 0 /\ counts[d].exit = 0

\* C29: the enter check and the exit check are independent: on an update
\* that takes both smoothed labels from pos to neg, with neither latch set
\* both events fire (enter and exit increase by 1, occupancy is unchanged,
\* both latches are set afterwards), and with one latch set only the other
\* event fires.
C29_EnterExitIndependent ==
    [][\A d \in DoorNames :
          (/\ 1 \in DOMAIN md_track_states
           /\ 1 \in DOMAIN md_track_states'
           /\ md_track_states'[1][d] # md_track_states[1][d]
           /\ md_track_states[1][d].last_side = "A-pos-B-pos"
           /\ md_track_states'[1][d].last_side = "A-neg-B-neg")
          => LET s  == md_track_states[1][d]
                 sn == md_track_states'[1][d]
                 de == IF s.has_counted_entry THEN 0 ELSE 1
                 dx == IF s.has_counted_exit THEN 0 ELSE 1
             IN  /\ enter_fired'[1][d] = enter_fired[1][d] + de
                 /\ exit_fired'[1][d] = exit_fired[1][d] + dx
                 /\ counts'[d].enter = counts[d].enter + de
                 /\ counts'[d].exit = counts[d].exit + dx
                 /\ counts'[d].occupancy = counts[d].occupancy + de - dx
                 /\ sn.has_counted_entry /\ sn.has_counted_exit]_vars

\* both events of door1 fired on the second observation of the track
C29_Witness ==
    /\ 1 \in DOMAIN md_track_states
    /\ Len(md_track_states[1].door1.side_A_history) = 2
    /\ enter_fired[1].door1 = 1 /\ exit_fired[1].door1 = 1
    /\ counts.door1.occupancy = 0

\* ------------------------------------------------------------------------
\* Further claims about the multi-door server
\* ------------------------------------------------------------------------
\* C22: the counters are written only by the processing-loop thread: every
\* step that changes counts is a step of the loop.
C22_OnlyLoopWritesCounters ==
    [][counts' # counts => app_pc' # app_pc]_vars

\* ------------------------------------------------------------------------
\* Claims about the letterbox coordinates
\* ------------------------------------------------------------------------
\* C21: for every frame size and every box of the frame, mapping the box
\* onto the model input (coord * scale + pad) and decoding it as post_process
\* does gives back every coordinate of the box to within 1/16 of a pixel.
C21_RoundTrip ==
    lb_pc = "decoded" =>
        \A k \in 1..4 :
            /\ 16 * (lb_final[k] - lb_box[k] * Resolution) <= Resolution
            /\ 16 * (lb_box[k] * Resolution - lb_final[k]) <= Resolution

\* a box of a portrait frame, padded left and right, decoded
C21_Witness ==
    /\ lb_pc = "decoded"
    /\ lb_params.pad_w > 0
    /\ lb_params.den > INPUT_SIZE
    /\ lb_box[1] > 0

C32_CountsMatchCrossed ==
    /\ in_count + out_count = Cardinality(total_crossed)
    /\ total_crossed \subseteq DOMAIN track_states

\* two track ids counted, one in each direction
C32_Witness ==
    Cardinality(total_crossed) = 2 /\ in_count = 1 /\ out_count = 1

\* the track ids whose entry / exit latch is set for door d
EntryLatched(ts, d) == { t \in DOMAIN ts : ts[t][d].has_counted_entry }
ExitLatched(ts, d) == { t \in DOMAIN ts : ts[t][d].has_counted_exit }

\* C33: after every update, for every door, enter is the number of track
\* ids whose has_counted_entry latch is set and exit the number whose
\* has_counted_exit latch is set; enter and exit do not decrease and are at
\* most the number of track ids seen.
C33_CountsMatchLatches ==
    [][\A d \in DoorNames :
          /\ counts'[d].enter = Cardinality(EntryLatched(md_track_states', d))
          /\ counts'[d].exit = Cardinality(ExitLatched(md_track_states', d))
          /\ counts'[d].enter >= counts[d].enter
          /\ counts'[d].exit >= counts[d].exit
          /\ counts'[d].enter <= Cardinality(DOMAIN md_track_states')
          /\ counts'[d].exit <= Cardinality(DOMAIN md_track_states')]_vars

\* both tracks have entered through door1
C33_Witness ==
    counts.door1.enter = 2 /\ Cardinality(EntryLatched(md_track_states, "door1")) = 2

\* C36: update(boxes) without track ids uses the index of a box as its track
\* id: the ids with a stored position are 0 .. n-1, n being the largest
\* number of boxes passed in one update since the last reset, and
\* in_count + out_count never exceeds n.
C36_CountBoundedByBoxes ==
    [][\/ PcReset
       \/ /\ \A boxes \in SeqUpTo(PcBoxes, MaxBoxes) :
                PcUpdateWith(boxes, RangeIds(boxes))
                => DOMAIN track_positions' =
                      0 .. (Maximum(Len(boxes), Cardinality(DOMAIN track_positions)) - 1)
          /\ in_count' + out_count' <= Cardinality(DOMAIN track_positions')]_vars

\* every box index has been counted once and a further crossing under a
\* counted index was not counted
C36_Witness ==
    /\ in_count + out_count = Cardinality(DOMAIN track_positions)
    /\ track_positions # << >>
    /\ suppressed # {}

\* C37: an update in which neither the line-A nor the line-B smoothed label
\* of the track goes from pos to neg changes no count of the door.
C37_OnlyPosToNegCounts ==
    [][\A d \in DoorNames :
          (\/ 1 \notin DOMAIN md_track_states
           \/ 1 \notin DOMAIN md_track_states'
           \/ LET prev == md_track_states[1][d].last_side
                  now  == md_track_states'[1][d].last_side
              IN  /\ ~(prev \in {"A-pos-B-pos", "A-pos-B-neg"}
                         /\ now \in {"A-neg-B-pos", "A-neg-B-neg"})
                  /\ ~(prev \in {"A-pos-B-pos", "A-neg-B-pos"}
                         /\ now \in {"A-pos-B-neg", "A-neg-B-neg"}))
          => counts'[d] = counts[d]]_vars

\* a track first seen on the negative side of both lines of door1 and now
\* on the positive side of both, nothing counted at door1
C37_Witness ==
    /\ 1 \in DOMAIN md_track_states
    /\ Len(md_track_states[1].door1.side_A_history) < HISTORY_MAXLEN
    /\ md_track_states[1].door1.side_A_history[1] < 0
    /\ md_track_states[1].door1.side_B_history[1] < 0
    /\ md_track_states[1].door1.last_side = "A-pos-B-pos"
    /\ counts.door1 = [enter |-> 0, exit |-> 0, occupancy |-> 0]

\* ------------------------------------------------------------------------
\* Further claims about InputReader
\* ------------------------------------------------------------------------
\* C34: whenever the acquisition thread has terminated, stopped is true.
C34_EndedImpliesStopped ==
    ThreadEnded => stopped

\* ------------------------------------------------------------------------
\* Claims about the per-track state kept by the counters of the servers
\* ------------------------------------------------------------------------
\* f and g agree at t: both have no entry for t, or both the same entry
SameAt(f, g, t) ==
    /\ t \in DOMAIN f <=> t \in DOMAIN g
    /\ t \in DOMAIN f => f[t] = g[t]

\* C31: neither counter evicts per-track state in update: the set of track
\* ids with a stored position (PassengerCounter) or stored track state
\* (MultiDoorCounter) never shrinks, whether or not a track is still
\* reported; only PassengerCounter.reset removes entries.
C31_NoEvictionInUpdate ==
    [][/\ PcReset \/ DOMAIN track_positions \subseteq DOMAIN track_positions'
       /\ DOMAIN md_track_states \subseteq DOMAIN md_track_states'
       /\ (api_pc = "update" /\ api_pc' = "add_in")
            => DOMAIN track_positions \subseteq DOMAIN track_positions']_vars

\* an update of the single-line server with one box has just run and the
\* position stored for box index 1 is still there
C31_Witness ==
    /\ server = "api"
    /\ api_pc = "add_in"
    /\ api_nboxes = 1
    /\ 1 \in DOMAIN track_positions

\* C35: at the end of every tick of capture_frames with no reset in
\* progress, analytics_data IN and OUT equal the counter's in_count and
\* out_count, for every interleaving of the /api/reset handler.
C35_AnalyticsMatchCounter ==
    [][(api_pc = "add_out" /\ api_pc' = "update" /\ api_rst' = "idle")
          => analytics_in' = in_count' /\ analytics_out' = out_count']_vars

\* C38: an update changes per-track state only for the track ids present in
\* its input, and an update with no detections changes nothing: update([])
\* returns (0, 0) and leaves counts, total_crossed, positions and states as
\* they were; update({}) leaves counts, latches and histories as they were.
C38_AbsentTracksUntouched ==
    [][/\ (api_pc = "update" /\ api_pc' = "add_in") =>
            /\ \A t \in PcTrackIds :
                  t >= api_nboxes' =>
                     /\ SameAt(track_positions, track_positions', t)
                     /\ SameAt(track_states, track_states', t)
                     /\ t \in total_crossed <=> t \in total_crossed'
                     /\ contrib'[t] = contrib[t]
            /\ api_nboxes' = 0 =>
                  /\ pc_ret' = <<0, 0>>
                  /\ in_count' = in_count /\ out_count' = out_count
                  /\ total_crossed' = total_crossed
                  /\ track_positions' = track_positions
                  /\ track_states' = track_states
       /\ ticks' # ticks =>
            /\ \A t \in MdTrackIds \ DOMAIN app_objs' :
                  /\ SameAt(md_track_states, md_track_states', t)
                  /\ enter_fired'[t] = enter_fired[t]
                  /\ exit_fired'[t] = exit_fired[t]
            /\ DOMAIN app_objs' = {} =>
                  /\ counts' = counts
                  /\ md_track_states' = md_track_states]_vars

\* the multi-door server's last tick had no tracked objects and the enter
\* event counted before it is still counted, its track still stored
C38_Witness ==
    /\ server = "app"
    /\ ticks > 0
    /\ DOMAIN app_objs = {}
    /\ counts.door1.enter = 1
    /\ md_track_states # << >>

====
